---- MODULE Spec2Model ----
(***************************************************************************)
(* Migration engine of Adaptus2-orm (src/core/MigrationManager.js) driven  *)
(* through the ORM facade of index.js.                                     *)
(*                                                                         *)
(* Migration identifiers are the integers 1..NumUnits; their numeric order *)
(* stands for the lexicographic order of the file names.  The ledger is    *)
(* the migration table: a set of rows [migration, batch].  Every await of  *)
(* the engine on the ORM or on a transform is one step of the model, and   *)
(* the adapter's answer (success or failure result) and the transform's    *)
(* outcome (returns or raises) are chosen nondeterministically.            *)
(***************************************************************************)
EXTENDS Integers, Sequences, FiniteSets, TLC

NumUnits == 3
MaxBatch == 2

Units == 1..NumUnits
Batches == 1..MaxBatch

\* What loading a unit's module and running one of its transforms can do:
\* the transform is not exported, it raises, or it returns.  The module is
\* re-read on every load (the require cache entry is deleted first).
UnitOutcomes == {"no export", "raises", "returns"}

\* rollback(batch = null): the default argument
NoBatch == 0

VARIABLES
    files,      \* identifiers of the .js files in migrationsPath
    ledger,     \* rows of the migration table
    applied,    \* units pushed to `executed` and not since to `rolledBack`
                \* or `resetMigrations`
    errorFn,    \* whether response.error is still the method of the literal
    call,       \* the engine operation running, or run last
    arg,        \* the batch argument of rollback
    pc,         \* position inside the running operation
    fr,         \* its locals: queue, done, errors, batch, rdone
    trace,      \* units loaded, transforms run and ledger writes attempted
                \* by the operation, in order
    before,     \* the ledger when the operation was called
    ioFail,     \* whether an adapter call of the operation reported failure
    result,     \* what the last operation returned
    prev,       \* whether it directly followed a successful migrate(), and
                \* the units that migrate() applied
    race,       \* two migrate() invocations sharing one ledger
    qb,         \* a QueryBuilder and what it built last
    schemas,    \* two schema snapshots and their comparison
    made,       \* the migration files create() wrote, and the clock
    setup,     \* the ledger table and the initialize() calls made
    conns,     \* the connections of the ORM and the pools of its DatabaseManager
    orm        \* the response object of index.js and the results its callers hold

vars == <<files, ledger, applied, errorFn, call, arg, pc, fr,
          trace, before, ioFail, result, prev>>

----------------------------------------------------------------------------
(* Helpers over sets, sequences and rows *)

Range(s) == {s[i] : i \in 1..Len(s)}

Max(S) == CHOOSE x \in S : \A y \in S : y <= x

Min(S) == CHOOSE x \in S : \A y \in S : x <= y

\* Array.prototype.sort() on the file names: ascending
RECURSIVE SortAsc(_)
SortAsc(S) == IF S = {} THEN <<>>
              ELSE <<Min(S)>> \o SortAsc(S \ {Min(S)})

Row(m, b) == [migration |-> m, batch |-> b]

\* ORDER BY migration ASC
RECURSIVE OrderByMigrationAsc(_)
OrderByMigrationAsc(rows) ==
    IF rows = {} THEN <<>>
    ELSE LET r == CHOOSE x \in rows : \A y \in rows : x.migration <= y.migration
         IN <<r>> \o OrderByMigrationAsc(rows \ {r})

\* ORDER BY migration DESC
RECURSIVE OrderByMigrationDesc(_)
OrderByMigrationDesc(rows) ==
    IF rows = {} THEN <<>>
    ELSE LET r == CHOOSE x \in rows : \A y \in rows : x.migration >= y.migration
         IN <<r>> \o OrderByMigrationDesc(rows \ {r})

\* ORDER BY batch DESC, migration DESC
RowAfter(x, y) == \/ x.batch > y.batch
                  \/ x.batch = y.batch /\ x.migration >= y.migration

RECURSIVE OrderByBatchDescMigrationDesc(_)
OrderByBatchDescMigrationDesc(rows) ==
    IF rows = {} THEN <<>>
    ELSE LET r == CHOOSE x \in rows : \A y \in rows : RowAfter(x, y)
         IN <<r>> \o OrderByBatchDescMigrationDesc(rows \ {r})

Migrations(rowSeq) == [i \in 1..Len(rowSeq) |-> rowSeq[i].migration]

\* SELECT MAX(batch) as max_batch: NULL on an empty table, read as `|| 0`
MaxBatchOf(rows) == IF rows = {} THEN 0 ELSE Max({r.batch : r \in rows})

----------------------------------------------------------------------------
(* The ORM facade of index.js *)

\* variant: response.error stays callable, so a failure is always returned
RespondReturnsFailure(fn, adapterOk) ==
    IF adapterOk THEN "success" ELSE "error"

\* The shared `response` object.  Its literal defines the key `error` twice,
\* so response.error starts as the method; setResponse then assigns
\* this.error, after which response.error is no longer callable.  `success`
\* is only ever the method, so result.success is always truthy.
\*   "success": response.success(data) was returned
\*   "error"  : response.error(...) was returned (statusCode 500, data = {})
\*   "throws" : calling response.error raised a TypeError, in the try block
\*              and again in the catch block of the ORM method
Respond(fn, adapterOk) ==
    IF adapterOk THEN "success"
    ELSE IF fn THEN "error"
    ELSE "throws"

\* variant: create() hands back the failure result instead of raising
OrmCreateReturnsFailure(fn, adapterOk) ==
    IF adapterOk THEN "success" ELSE "error"

OrmCreate(fn, adapterOk) == Respond(fn, adapterOk)

OrmRead(fn, adapterOk) == Respond(fn, adapterOk)

\* variant: deleteRecord() hands back the failure result instead of raising
OrmDeleteRecordReturnsFailure(fn, adapterOk) ==
    IF adapterOk THEN "success" ELSE "error"

OrmDeleteRecord(fn, adapterOk) == Respond(fn, adapterOk)

\* variant: query() hands back the failure result instead of raising
OrmQueryReturnsFailure(fn, adapterOk) ==
    IF adapterOk THEN "success" ELSE "error"

OrmQuery(fn, adapterOk) == Respond(fn, adapterOk)

----------------------------------------------------------------------------
(* Results and locals of the engine operations *)

NoFrame == [queue |-> <<>>, done |-> <<>>, errors |-> <<>>, batch |-> 0,
            rdone |-> <<>>]

Err(m, e) == [migration |-> m, error |-> e]

\* `of` names the operation that built the result: the key of its data is
\* executed (migrate), rolledBack (rollback), resetMigrations (reset) or
\* migrated (refresh)
MkResult(of, s, msg, d, e, b, rb, err) ==
    [of |-> of, success |-> s, message |-> msg, done |-> d, errors |-> e,
     batch |-> b, rolledBack |-> rb, error |-> err]

NoResult == MkResult("none", TRUE, "none", <<>>, <<>>, 0, <<>>, "none")

\* the outer catch of migrate, rollback and reset
Caught(of) == MkResult(of, FALSE, "none", <<>>, <<>>, 0, <<>>, "TypeError")

NoPending ==
    MkResult("migrate", TRUE, "No pending migrations", <<>>, <<>>, 0, <<>>, "none")

MigrateResult(f) ==
    MkResult("migrate", f.errors = <<>>, "Executed", f.done, f.errors, f.batch,
             <<>>, "none")

NoRollback ==
    MkResult("rollback", TRUE, "No migrations to rollback", <<>>, <<>>, 0, <<>>,
             "none")

RollbackResult(f) ==
    MkResult("rollback", f.errors = <<>>, "Rolled back", f.done, f.errors, 0,
             <<>>, "none")

NoReset ==
    MkResult("reset", TRUE, "No migrations to reset", <<>>, <<>>, 0, <<>>, "none")

ResetResult(f) ==
    MkResult("reset", f.errors = <<>>, "Reset", f.done, f.errors, 0, <<>>, "none")

Refreshed(rd, ex) ==
    MkResult("refresh", TRUE, "Database refreshed successfully", ex, <<>>, 0, rd,
             "none")

\* variant: the loop of rollback goes on after an error
BreaksOnErrorNotRollback(loop) == loop \in {"migrate"}

\* variant: the loop of reset breaks as well
BreaksOnErrorAlways(loop) == TRUE

\* variant: the loop of migrate goes on after an error
BreaksOnErrorNotMigrate(loop) == loop \in {"rollback"}

\* `break; // Stop on first error` in the loops of migrate and rollback;
\* the loop of reset continues
BreaksOnError(loop) == loop \in {"migrate", "rollback"}

\* variant: every discovered file, executed or not
PendingMigrationsAll(fs, rows) == SortAsc(fs)

\* files.filter(f => !executedMigrations.includes(f)) over the sorted names
PendingMigrations(fs, rows) ==
    SortAsc({f \in fs : f \notin Range(Migrations(OrderByMigrationAsc(rows)))})

\* variant: the maximum itself, without the increment
NextBatchNumberSame(rows) == MaxBatchOf(rows)

NextBatchNumber(rows) == MaxBatchOf(rows) + 1

\* variant: MIN(batch) in place of MAX(batch)
LastBatchNumberMin(rows) ==
    IF rows = {} THEN 0 ELSE Min({r.batch : r \in rows})

LastBatchNumber(rows) == MaxBatchOf(rows)

\* variant: the rows of the batch and of every later batch
RowsOfBatchOrLater(rows, b) == OrderByMigrationDesc({r \in rows : r.batch >= b})

\* read(..., { where: { batch }, orderBy: 'migration', order: 'DESC' })
RowsOfBatch(rows, b) == OrderByMigrationDesc({r \in rows : r.batch = b})

\* status(): rows.reduce(...) into a map keyed by migration, then
\* executedMigrations[file] ? 'executed' : 'pending'
ExecutedMigrations(rows) ==
    [m \in {r.migration : r \in rows} |->
        LET hits == {r \in rows : r.migration = m}
        IN  (CHOOSE r \in hits : \A o \in hits : o.batch <= r.batch).batch]

\* variant: every file is reported executed once the table has a row
StatusOfAnyRow(file, rows) ==
    IF rows # {} THEN "executed" ELSE "pending"

StatusOf(file, rows) ==
    IF file \in DOMAIN ExecutedMigrations(rows) THEN "executed" ELSE "pending"

\* DELETE FROM migrations WHERE migration = ?
DeleteWhere(rows, m) == {r \in rows : r.migration # m}

----------------------------------------------------------------------------
(* Returning from an operation *)

Ret(r) == /\ pc' = "idle"
          /\ result' = r
          /\ fr' = NoFrame

\* migrate() returns r: to the caller, or to refresh()
MigrateReturn(c, r) ==
    IF c = "refresh" /\ r.success
    THEN Ret(Refreshed(fr.rdone, r.done))
    ELSE Ret(r)

\* reset() returns r: to the caller, or to refresh(), which goes on to
\* migrate() only when r.success
ResetReturn(c, r) ==
    IF c = "refresh" /\ r.success
    THEN /\ pc' = "f_migrate"
         /\ fr' = [NoFrame EXCEPT !.rdone = r.done]
         /\ result' = result
    ELSE Ret(r)

\* what the operation called next follows: the units applied by a migrate()
\* that has just returned success, or nothing of interest
NoChain == [migrated |-> FALSE, done |-> <<>>]

Chain == IF call = "migrate" /\ result.success
         THEN [migrated |-> TRUE, done |-> result.done]
         ELSE NoChain

Begin(c, a) ==
    /\ pc = "idle"
    /\ call' = c
    /\ arg' = a
    /\ before' = ledger
    /\ prev' = Chain

----------------------------------------------------------------------------
(* Environment *)

\* a MigrationManager just constructed, in a process that has just loaded
\* index.js
EngineInit ==
    /\ files = {}
    /\ ledger = {}
    /\ applied = {}
    /\ errorFn = TRUE
    /\ call = "none"
    /\ arg = NoBatch
    /\ pc = "idle"
    /\ fr = NoFrame
    /\ trace = <<>>
    /\ before = {}
    /\ ioFail = FALSE
    /\ result = NoResult
    /\ prev = NoChain

\* no second invocation is running
NoRace == [on |-> FALSE]

\* no builder is in use
NoBuilder == [on |-> FALSE]

\* no snapshots are being compared
NoSchemas == [on |-> FALSE]

\* create() has not been called
NoMade == [on |-> FALSE]

\* initialize() has not been called
NoSetup == [on |-> FALSE]

\* no connection has been asked for
NoConns == [on |-> FALSE]

\* no ORM operation has been called
NoOrm == [on |-> FALSE]

\* the single writer runs alone
Alone == UNCHANGED <<race, qb, schemas, made, setup, conns, orm>>

Init ==
    /\ EngineInit
    /\ race = NoRace
    /\ schemas = NoSchemas
    /\ made = NoMade
    /\ setup = NoSetup
    /\ conns = NoConns
    /\ orm = NoOrm
    /\ qb = NoBuilder

\* A migration file appears in migrationsPath
Discover(u) ==
    /\ pc = "idle"
    /\ u \notin files
    /\ files' = files \cup {u}
    /\ call' = "discover"
    /\ arg' = NoBatch
    /\ before' = ledger
    /\ trace' = <<>>
    /\ ioFail' = FALSE
    /\ result' = NoResult
    /\ prev' = Chain
    /\ UNCHANGED <<ledger, applied, errorFn, pc, fr>>

\* A migration file is deleted from migrationsPath; its row, if any, stays
Remove(u) ==
    /\ pc = "idle"
    /\ u \in files
    /\ files' = files \ {u}
    /\ call' = "remove"
    /\ arg' = NoBatch
    /\ before' = ledger
    /\ trace' = <<>>
    /\ ioFail' = FALSE
    /\ result' = NoResult
    /\ prev' = Chain
    /\ UNCHANGED <<ledger, applied, errorFn, pc, fr>>

\* A new process loads index.js: the response literal is built afresh
ModuleLoad ==
    /\ pc = "idle"
    /\ ~errorFn
    /\ errorFn' = TRUE
    /\ UNCHANGED <<files, ledger, applied, call, arg, pc, fr, trace,
                   before, ioFail, result, prev>>

----------------------------------------------------------------------------
(* migrate() *)

\* const pendingMigrations = await this._getPendingMigrations()
MigrateBegin(c, ok) ==
    LET o == OrmRead(errorFn, ok)
        pend == PendingMigrations(files, ledger)
    IN  /\ errorFn' = FALSE
        /\ IF o = "success"
           THEN IF pend = <<>>
                THEN MigrateReturn(c, NoPending)
                ELSE /\ pc' = "m_batch"
                     /\ fr' = [fr EXCEPT !.queue = pend]
                     /\ result' = result
           ELSE \* "error": data is {}, data.map is not a function; "throws"
                MigrateReturn(c, Caught("migrate"))
        /\ UNCHANGED <<files, ledger, applied>>

Migrate(ok) ==
    /\ Begin("migrate", NoBatch)
    /\ MaxBatchOf(ledger) < MaxBatch \/ PendingMigrations(files, ledger) = <<>>
    /\ trace' = <<>>
    /\ ioFail' = ~ok
    /\ MigrateBegin("migrate", ok)

\* const currentBatch = await this._getNextBatchNumber()
MigrateBatch(ok) ==
    LET o == OrmQuery(errorFn, ok)
    IN  /\ pc = "m_batch"
        /\ errorFn' = FALSE
        /\ ioFail' = (ioFail \/ ~ok)
        /\ CASE o = "success" ->
                  /\ pc' = "m_up"
                  /\ fr' = [fr EXCEPT !.batch = NextBatchNumber(ledger)]
                  /\ result' = result
             [] o = "error" ->    \* data is {}: no length, `return 1`
                  /\ pc' = "m_up"
                  /\ fr' = [fr EXCEPT !.batch = 1]
                  /\ result' = result
             [] o = "throws" -> MigrateReturn(call, Caught("migrate"))
        /\ UNCHANGED <<files, ledger, applied, call, arg, trace,
                       before, prev>>

\* after the unit at the head of the queue: next unit, or the loop ends
MigrateNext(f) ==
    IF Tail(f.queue) = <<>>
    THEN MigrateReturn(call, MigrateResult(f))
    ELSE /\ pc' = "m_up"
         /\ fr' = [f EXCEPT !.queue = Tail(f.queue)]
         /\ result' = result

\* the catch of the loop: record the error, then break
MigrateFail(u, e) ==
    LET f == [fr EXCEPT !.errors = Append(fr.errors, Err(u, e))]
    IN  IF BreaksOnError("migrate")
        THEN MigrateReturn(call, MigrateResult(f))
        ELSE MigrateNext(f)

\* _executeMigration up to `await migration.up(this.orm, this.config)`
MigrateUp(unit) ==
    LET u == Head(fr.queue)
    IN  /\ pc = "m_up"
        /\ IF unit = "no export"    \* typeof migration.up !== 'function'
           THEN /\ trace' = Append(trace, [ev |-> "no up", m |-> u])
                /\ MigrateFail(u, "no up")
           ELSE /\ trace' = (IF unit = "raises"
                           THEN trace \o <<[ev |-> "up", m |-> u],
                                           [ev |-> "up raised", m |-> u]>>
                           ELSE Append(trace, [ev |-> "up", m |-> u]))
                /\ IF unit = "raises"
                   THEN MigrateFail(u, "raised")
                   ELSE /\ pc' = "m_insert"
                        /\ fr' = fr
                        /\ result' = result
        /\ UNCHANGED <<files, ledger, applied, errorFn, call, arg,
                       before, ioFail, prev>>

\* _executeMigration: `await this.orm.create(...)`, then executed.push
MigrateInsert(ok) ==
    LET u == Head(fr.queue)
        \* the migration column is UNIQUE
        adapterOk == ok /\ \A r \in ledger : r.migration # u
        o == OrmCreate(errorFn, adapterOk)
        pushed == [fr EXCEPT !.done = Append(fr.done, u)]
    IN  /\ pc = "m_insert"
        /\ errorFn' = FALSE
        /\ ioFail' = (ioFail \/ ~adapterOk)
        /\ CASE o = "success" ->
                  /\ ledger' = ledger \cup {Row(u, fr.batch)}
                  /\ trace' = Append(trace, [ev |-> "insert", m |-> u])
                  /\ applied' = applied \cup {u}
                  /\ MigrateNext(pushed)
             [] o = "error" ->    \* create() returns: the unit counts as executed
                  /\ ledger' = ledger
                  /\ trace' = Append(trace, [ev |-> "insert failed", m |-> u])
                  /\ applied' = applied \cup {u}
                  /\ MigrateNext(pushed)
             [] o = "throws" ->
                  /\ ledger' = ledger
                  /\ trace' = Append(trace, [ev |-> "insert failed", m |-> u])
                  /\ applied' = applied
                  /\ MigrateFail(u, "TypeError")
        /\ UNCHANGED <<files, call, arg, before, prev>>

----------------------------------------------------------------------------
(* rollback(batch), reset() and the _rollbackMigration they share *)

LoopOf(p) == IF p \in {"r_down", "r_delete"} THEN "rollback" ELSE "reset"

LoopReturn(loop, f) ==
    IF loop = "rollback"
    THEN Ret(RollbackResult(f))
    ELSE ResetReturn(call, ResetResult(f))

RollbackNext(loop, f) ==
    IF Tail(f.queue) = <<>>
    THEN LoopReturn(loop, f)
    ELSE /\ pc' = (IF loop = "rollback" THEN "r_down" ELSE "s_down")
         /\ fr' = [f EXCEPT !.queue = Tail(f.queue)]
         /\ result' = result

\* the catch of the loop: rollback breaks, reset goes on to the next row
RollbackFail(loop, u, e) ==
    LET f == [fr EXCEPT !.errors = Append(fr.errors, Err(u, e))]
    IN  IF BreaksOnError(loop)
        THEN LoopReturn(loop, f)
        ELSE RollbackNext(loop, f)

\* the read of the rows of one batch, and what the loop starts with
RollbackSelect(b, ok) ==
    LET o == OrmRead(errorFn, ok)
        sel == Migrations(RowsOfBatch(ledger, b))
    IN  /\ errorFn' = FALSE
        /\ IF o = "success"
           THEN IF sel = <<>>
                THEN Ret(RollbackResult(NoFrame))
                ELSE /\ pc' = "r_down"
                     /\ fr' = [NoFrame EXCEPT !.queue = sel, !.batch = b]
                     /\ result' = result
           ELSE \* "error": data is {}, which for..of cannot iterate; "throws"
                Ret(Caught("rollback"))
        /\ UNCHANGED <<files, ledger, applied>>

\* rollback(batch) with a batch number
Rollback(b, ok) ==
    /\ Begin("rollback", b)
    /\ trace' = <<>>
    /\ ioFail' = ~ok
    /\ RollbackSelect(b, ok)

\* rollback(): const lastBatch = await this._getLastBatchNumber()
RollbackLast(ok) ==
    LET o == OrmQuery(errorFn, ok)
        lastBatch == IF o = "success" THEN LastBatchNumber(ledger) ELSE 0
    IN  /\ Begin("rollback", NoBatch)
        /\ trace' = <<>>
        /\ ioFail' = ~ok
        /\ errorFn' = FALSE
        /\ IF o = "throws"
           THEN Ret(Caught("rollback"))
           ELSE IF lastBatch = 0    \* "error": data is {}, `return 0`
                THEN Ret(NoRollback)
                ELSE /\ pc' = "r_read"
                     /\ fr' = [NoFrame EXCEPT !.batch = lastBatch]
                     /\ result' = result
        /\ UNCHANGED <<files, ledger, applied>>

\* rollback(): the read of the rows of lastBatch
RollbackRead(ok) ==
    /\ pc = "r_read"
    /\ ioFail' = (ioFail \/ ~ok)
    /\ RollbackSelect(fr.batch, ok)
    /\ UNCHANGED <<call, arg, trace, before, prev>>

\* _rollbackMigration up to `await migration.down(this.orm, this.config)`
RollbackDown(unit) ==
    LET u == Head(fr.queue)
        loop == LoopOf(pc)
    IN  /\ pc \in {"r_down", "s_down"}
        /\ IF u \notin files \/ unit = "no export"
           THEN /\ trace' = Append(trace, [ev |-> "no down", m |-> u])
                /\ RollbackFail(loop, u,
                       IF u \notin files THEN "not found" ELSE "no down")
           ELSE /\ trace' = (IF unit = "raises"
                           THEN trace \o <<[ev |-> "down", m |-> u],
                                           [ev |-> "down raised", m |-> u]>>
                           ELSE Append(trace, [ev |-> "down", m |-> u]))
                /\ IF unit = "raises"
                   THEN RollbackFail(loop, u, "raised")
                   ELSE /\ pc' = (IF loop = "rollback" THEN "r_delete"
                                                       ELSE "s_delete")
                        /\ fr' = fr
                        /\ result' = result
        /\ UNCHANGED <<files, ledger, applied, errorFn, call, arg,
                       before, ioFail, prev>>

\* _rollbackMigration: `await this.orm.deleteRecord(...)`, then the push
RollbackDelete(ok) ==
    LET u == Head(fr.queue)
        loop == LoopOf(pc)
        o == OrmDeleteRecord(errorFn, ok)
        pushed == [fr EXCEPT !.done = Append(fr.done, u)]
    IN  /\ pc \in {"r_delete", "s_delete"}
        /\ errorFn' = FALSE
        /\ ioFail' = (ioFail \/ ~ok)
        /\ CASE o = "success" ->
                  /\ ledger' = DeleteWhere(ledger, u)
                  /\ trace' = Append(trace, [ev |-> "delete", m |-> u])
                  /\ applied' = applied \ {u}
                  /\ RollbackNext(loop, pushed)
             [] o = "error" ->    \* deleteRecord() returns: counts as rolled back
                  /\ ledger' = ledger
                  /\ trace' = Append(trace, [ev |-> "delete failed", m |-> u])
                  /\ applied' = applied \ {u}
                  /\ RollbackNext(loop, pushed)
             [] o = "throws" ->
                  /\ ledger' = ledger
                  /\ trace' = Append(trace, [ev |-> "delete failed", m |-> u])
                  /\ applied' = applied
                  /\ RollbackFail(loop, u, "TypeError")
        /\ UNCHANGED <<files, call, arg, before, prev>>

\* reset(): the read of all rows, most recent batch first
ResetBegin(c, ok) ==
    LET o == OrmRead(errorFn, ok)
        all == Migrations(OrderByBatchDescMigrationDesc(ledger))
    IN  /\ errorFn' = FALSE
        /\ CASE o = "success" ->
                  IF all = <<>>
                  THEN ResetReturn(c, NoReset)
                  ELSE /\ pc' = "s_down"
                       /\ fr' = [NoFrame EXCEPT !.queue = all]
                       /\ result' = result
             [] o = "error" ->    \* data is {}: `!data.length` holds
                  ResetReturn(c, NoReset)
             [] o = "throws" -> ResetReturn(c, Caught("reset"))
        /\ UNCHANGED <<files, ledger, applied>>

Reset(ok) ==
    /\ Begin("reset", NoBatch)
    /\ trace' = <<>>
    /\ ioFail' = ~ok
    /\ ResetBegin("reset", ok)

----------------------------------------------------------------------------
(* refresh() *)

\* const resetResult = await this.reset()
Refresh(ok) ==
    /\ Begin("refresh", NoBatch)
    \* only a reset() that passes for a success without having emptied the
    \* ledger lets the migrate() that follows take a batch above 1
    /\ (OrmRead(errorFn, ok) = "error") => MaxBatchOf(ledger) < MaxBatch
    /\ trace' = <<>>
    /\ ioFail' = ~ok
    /\ ResetBegin("refresh", ok)

\* const migrateResult = await this.migrate(), reached when resetResult.success
RefreshMigrate(ok) ==
    /\ pc = "f_migrate"
    /\ ioFail' = (ioFail \/ ~ok)
    /\ MigrateBegin("refresh", ok)
    /\ UNCHANGED <<call, arg, trace, before, prev>>

----------------------------------------------------------------------------
(* status() *)

\* executedMigrations[file]?.batch || null
BatchOrNull(file, rows) ==
    IF file \in DOMAIN ExecutedMigrations(rows)
    THEN ExecutedMigrations(rows)[file]
    ELSE 0

\* the object status() returns: one entry per sorted file, and the summary
StatusResult(fs, rows) ==
    LET sorted == SortAsc(fs)
        keys == DOMAIN ExecutedMigrations(rows)
    IN  [of |-> "status", success |-> TRUE, message |-> "none",
         error |-> "none",
         migrations |-> [i \in 1..Len(sorted) |->
                            [migration |-> sorted[i],
                             status |-> StatusOf(sorted[i], rows),
                             batch |-> BatchOrNull(sorted[i], rows)]],
         summary |-> [total |-> Cardinality(fs),
                      executed |-> Cardinality(keys),
                      pending |-> Cardinality(fs) - Cardinality(keys)]]

StatusCaught ==
    [of |-> "status", success |-> FALSE, message |-> "none",
     error |-> "TypeError", migrations |-> <<>>,
     summary |-> [total |-> 0, executed |-> 0, pending |-> 0]]

Status(ok) ==
    LET o == OrmRead(errorFn, ok)
    IN  /\ Begin("status", NoBatch)
        /\ trace' = <<>>
        /\ ioFail' = ~ok
        /\ errorFn' = FALSE
        /\ pc' = "idle"
        /\ fr' = NoFrame
        /\ IF o = "success"
           THEN result' = StatusResult(files, ledger)
           ELSE \* "error": data is {}, data.reduce is not a function; "throws"
                result' = StatusCaught
        /\ UNCHANGED <<files, ledger, applied>>

----------------------------------------------------------------------------
(* dryRun() and validateMigration *)

\* variant: a unit counts as valid as soon as it exports up
ValidOfUpOnly(up, down) == up

\* validateMigration: success is errors.length === 0, one error per
\* transform that is not a function
ValidOf(up, down) == up /\ down

ValidationErrors(up, down) ==
    (IF up THEN <<>> ELSE <<"no up">>) \o (IF down THEN <<>> ELSE <<"no down">>)

\* the object dryRun() returns
DryRunResult(f) ==
    [of |-> "dryRun", success |-> TRUE, message |-> "none", error |-> "none",
     pendingMigrations |-> f.rdone,
     validations |-> f.done,
     allValid |-> \A i \in DOMAIN f.done : f.done[i].valid]

DryRunCaught ==
    [of |-> "dryRun", success |-> FALSE, message |-> "none",
     error |-> "TypeError", pendingMigrations |-> <<>>, validations |-> <<>>,
     allValid |-> FALSE]

\* const pendingMigrations = await this._getPendingMigrations()
DryRun(ok) ==
    LET o == OrmRead(errorFn, ok)
        pend == PendingMigrations(files, ledger)
    IN  /\ Begin("dryRun", NoBatch)
        /\ trace' = <<>>
        /\ ioFail' = ~ok
        /\ errorFn' = FALSE
        /\ IF o = "success"
           THEN IF pend = <<>>
                THEN Ret(DryRunResult(NoFrame))
                ELSE /\ pc' = "d_validate"
                     /\ fr' = [NoFrame EXCEPT !.queue = pend, !.rdone = pend]
                     /\ result' = result
           ELSE \* "error": data is {}, data.map is not a function; "throws"
                Ret(DryRunCaught)
        /\ UNCHANGED <<files, ledger, applied>>

\* one turn of the loop: validateMigration loads the unit, which exports
\* up and down or not, and the validation is pushed
DryRunValidate(up, down) ==
    LET u == Head(fr.queue)
        f == [fr EXCEPT !.queue = Tail(fr.queue),
                        !.done = Append(fr.done,
                                    [migration |-> u,
                                     valid |-> ValidOf(up, down),
                                     errors |-> ValidationErrors(up, down)])]
    IN  /\ pc = "d_validate"
        /\ trace' = Append(trace, [ev |-> "load", m |-> u,
                                   up |-> up, down |-> down])
        /\ IF f.queue = <<>>
           THEN Ret(DryRunResult(f))
           ELSE /\ pc' = "d_validate"
                /\ fr' = f
                /\ result' = result
        /\ UNCHANGED <<files, ledger, applied, errorFn, call, arg,
                       before, ioFail, prev>>

----------------------------------------------------------------------------

Next ==
    \/ \E u \in Units : Discover(u) /\ Alone
    \/ \E u \in Units : Remove(u) /\ Alone
    \/ ModuleLoad /\ Alone
    \/ \E ok \in BOOLEAN : Migrate(ok) /\ Alone
    \/ \E ok \in BOOLEAN : MigrateBatch(ok) /\ Alone
    \/ \E unit \in UnitOutcomes : MigrateUp(unit) /\ Alone
    \/ \E ok \in BOOLEAN : MigrateInsert(ok) /\ Alone
    \/ \E b \in Batches, ok \in BOOLEAN : Rollback(b, ok) /\ Alone
    \/ \E ok \in BOOLEAN : RollbackLast(ok) /\ Alone
    \/ \E ok \in BOOLEAN : RollbackRead(ok) /\ Alone
    \/ \E unit \in UnitOutcomes : RollbackDown(unit) /\ Alone
    \/ \E ok \in BOOLEAN : RollbackDelete(ok) /\ Alone
    \/ \E ok \in BOOLEAN : Reset(ok) /\ Alone
    \/ \E ok \in BOOLEAN : Refresh(ok) /\ Alone
    \/ \E ok \in BOOLEAN : RefreshMigrate(ok) /\ Alone
    \/ \E ok \in BOOLEAN : Status(ok) /\ Alone
    \/ \E ok \in BOOLEAN : DryRun(ok) /\ Alone
    \/ \E up \in BOOLEAN, down \in BOOLEAN : DryRunValidate(up, down) /\ Alone

Spec == Init /\ [][Next]_vars

----------------------------------------------------------------------------
(* Two migrate() invocations on one ledger, nothing serializing them.      *)
(* Every adapter call answers, so an insert fails only on the unique       *)
(* constraint, and every forward transform returns.  A row carries the     *)
(* invocation that wrote it, as its auto-increment id tells rows apart.    *)

Procs == {"A", "B"}

\* config.type, as far as the ledger table goes
DatabaseTypes == {"mysql", "postgresql", "mongodb"}

\* variant: the unique column is enforced by every store
UniqueEnforcedAlways(type) == TRUE

\* `unique: true` of a column becomes a UNIQUE constraint in _createSQLTable;
\* _createMongoCollection looks at schema.indexes only
UniqueEnforced(type) == type \in {"mysql", "postgresql"}

RaceRow(m, b, p) == [migration |-> m, batch |-> b, by |-> p]

NoInvocation ==
    [pc |-> "start", pending |-> <<>>, queue |-> <<>>, batch |-> 0,
     done |-> <<>>, errors |-> <<>>]

\* the ledgers a first batch of an earlier, single migrate() leaves
RaceInit ==
    /\ EngineInit
    /\ schemas = NoSchemas
    /\ made = NoMade
    /\ setup = NoSetup
    /\ conns = NoConns
    /\ orm = NoOrm
    /\ qb = NoBuilder
    /\ \E fs \in SUBSET Units, type \in DatabaseTypes :
         \E old \in SUBSET fs :
           /\ fs # {}
           /\ race = [on |-> TRUE, files |-> fs, type |-> type,
                      rows |-> {RaceRow(u, 1, "earlier") : u \in old},
                      ups |-> <<>>,
                      inv |-> [p \in Procs |-> NoInvocation]]

\* const pendingMigrations = await this._getPendingMigrations()
RacePending(p) ==
    LET pend == PendingMigrations(race.files, race.rows)
    IN  /\ race.inv[p].pc = "start"
        /\ race' = [race EXCEPT
              !.inv[p].pending = pend,
              !.inv[p].queue = pend,
              !.inv[p].pc = IF pend = <<>> THEN "done" ELSE "m_batch"]

\* const currentBatch = await this._getNextBatchNumber()
RaceBatch(p) ==
    /\ race.inv[p].pc = "m_batch"
    /\ MaxBatchOf(race.rows) < MaxBatch
    /\ race' = [race EXCEPT
          !.inv[p].batch = NextBatchNumber(race.rows),
          !.inv[p].pc = "m_up"]

\* await migration.up(this.orm, this.config)
RaceUp(p) ==
    /\ race.inv[p].pc = "m_up"
    /\ race' = [race EXCEPT
          !.ups = Append(race.ups, [m |-> Head(race.inv[p].queue), by |-> p]),
          !.inv[p].pc = "m_insert"]

\* await this.orm.create(...), executed.push, and the loop's catch
RaceInsert(p) ==
    LET i == race.inv[p]
        u == Head(i.queue)
        adapterOk == UniqueEnforced(race.type)
                        => \A r \in race.rows : r.migration # u
        o == OrmCreate(FALSE, adapterOk)
        last == Tail(i.queue) = <<>>
    IN  /\ i.pc = "m_insert"
        /\ IF o = "success"
           THEN race' = [race EXCEPT
                   !.rows = race.rows \cup {RaceRow(u, i.batch, p)},
                   !.inv[p].done = Append(i.done, u),
                   !.inv[p].queue = Tail(i.queue),
                   !.inv[p].pc = IF last THEN "done" ELSE "m_up"]
           ELSE race' = [race EXCEPT
                   !.inv[p].errors = Append(i.errors, Err(u, "TypeError")),
                   !.inv[p].queue = IF BreaksOnError("migrate")
                                    THEN i.queue ELSE Tail(i.queue),
                   !.inv[p].pc = IF BreaksOnError("migrate") \/ last
                                 THEN "done" ELSE "m_up"]

RaceNext ==
    \/ \E p \in Procs : RacePending(p) /\ UNCHANGED vars /\ UNCHANGED <<qb, schemas, made, setup, conns, orm>>
    \/ \E p \in Procs : RaceBatch(p) /\ UNCHANGED vars /\ UNCHANGED <<qb, schemas, made, setup, conns, orm>>
    \/ \E p \in Procs : RaceUp(p) /\ UNCHANGED vars /\ UNCHANGED <<qb, schemas, made, setup, conns, orm>>
    \/ \E p \in Procs : RaceInsert(p) /\ UNCHANGED vars /\ UNCHANGED <<qb, schemas, made, setup, conns, orm>>

RaceSpec == RaceInit /\ [][RaceNext]_race

----------------------------------------------------------------------------
(* QueryBuilder (src/core/QueryBuilder.js).  SQL text is the sequence of   *)
(* its tokens: keywords and punctuation, names, operators, parameter       *)
(* markers, and values written into the text.  A field that is null in the *)
(* builder is the empty sequence here, and one that is set a sequence of   *)
(* one element.                                                            *)

None == <<>>

Some(x) == <<x>>

Tok(k, s, n) == [k |-> k, s |-> s, n |-> n]

Kw(s) == Tok("kw", s, 0)

Id(s) == Tok("id", s, 0)

Op(s) == Tok("op", s, 0)

\* `${value}` inside a template literal
Lit(v) == Tok("lit", "", v)

\* variant: postgresql takes the unnamed marker as well
MarkerUnnamed(type, n) == Tok("mark", "?", 0)

\* '?' for mysql and in the default branch, `$${n}` for postgresql, `:${n}`
\* for snowflake
Marker(type, n) ==
    CASE type = "postgresql" -> Tok("mark", "$", n)
      [] type = "snowflake" -> Tok("mark", ":", n)
      [] OTHER -> Tok("mark", "?", 0)

\* Array.prototype.join(', ') over pieces of text
RECURSIVE JoinComma(_)
JoinComma(parts) ==
    IF parts = <<>> THEN <<>>
    ELSE IF Len(parts) = 1 THEN parts[1]
    ELSE parts[1] \o <<Kw(",")>> \o JoinComma(Tail(parts))

RECURSIVE Flatten(_)
Flatten(seqs) ==
    IF seqs = <<>> THEN <<>> ELSE seqs[1] \o Flatten(Tail(seqs))

\* constructor() and reset()
NewBuilder ==
    [queryType |-> None, tableName |-> None, selectFields |-> <<"*">>,
     whereConditions |-> <<>>, joinClauses |-> <<>>, groupByFields |-> <<>>,
     havingConditions |-> <<>>, orderByFields |-> <<>>, limitValue |-> None,
     offsetValue |-> None, insertData |-> None, updateData |-> None,
     params |-> <<>>, databaseType |-> None]

\* String.prototype.toLowerCase on the names of the dialects
ToLowerCase(type) ==
    CASE type = "MySQL" -> "mysql"
      [] type = "PostgreSQL" -> "postgresql"
      [] type = "POSTGRESQL" -> "postgresql"
      [] type = "Snowflake" -> "snowflake"
      [] OTHER -> type

Database(b, type) == [b EXCEPT !.databaseType = Some(ToLowerCase(type))]

\* static create(databaseType)
Create(type) == Database(NewBuilder, type)

Table(b, name) == [b EXCEPT !.tableName = Some(name)]

\* select(fields) with an array of fields
Select(b, fields) ==
    [b EXCEPT !.queryType = Some("SELECT"), !.selectFields = fields]

\* insert(data): data is the payload, its keys in their own order
Insert(b, data) ==
    [b EXCEPT !.queryType = Some("INSERT"), !.insertData = Some(data)]

Update(b, data) ==
    [b EXCEPT !.queryType = Some("UPDATE"), !.updateData = Some(data)]

Delete(b) == [b EXCEPT !.queryType = Some("DELETE")]

\* insert(null), insert(undefined), insert()
InsertAbsent(b) == [b EXCEPT !.queryType = Some("INSERT"), !.insertData = None]

\* update(null), update(undefined), update()
UpdateAbsent(b) == [b EXCEPT !.queryType = Some("UPDATE"), !.updateData = None]

\* a condition; `value` holds the elements of an IN list, the one value of
\* another condition, or nothing for null
Cond(field, operator, value, type) ==
    [field |-> field, operator |-> operator, value |-> value, type |-> type]

\* variant: the values of a condition go in front of the earlier ones
PushWherePrepend(b, c) ==
    [b EXCEPT !.whereConditions = Append(@, c), !.params = c.value \o @]

\* the push of a condition and of its values that the where family shares
PushWhere(b, c) ==
    [b EXCEPT !.whereConditions = Append(@, c), !.params = @ \o c.value]

\* where(field, operator, value)
Where(b, field, operator, value) ==
    PushWhere(b, Cond(field, operator, <<value>>, "AND"))

\* orWhere(field, value)
OrWhere(b, field, value) == PushWhere(b, Cond(field, "=", <<value>>, "OR"))

WhereIn(b, field, values) == PushWhere(b, Cond(field, "IN", values, "AND"))

WhereNotIn(b, field, values) ==
    PushWhere(b, Cond(field, "NOT IN", values, "AND"))

WhereLike(b, field, pattern) ==
    PushWhere(b, Cond(field, "LIKE", <<pattern>>, "AND"))

\* the value null, where values are strings
JsNull == "(null)"

\* the strings that where() takes for an operator when it gets two arguments
OperatorStrings == {"=", "!=", ">", "<", ">=", "<="}

\* where(field, second) with exactly two arguments: the second is taken
\* for the value unless it is one of the operator strings; if it is one it
\* stays the operator and the value is the default, null
WhereTwo(b, field, second) ==
    IF second \notin OperatorStrings
    THEN Where(b, field, "=", second)
    ELSE Where(b, field, second, JsNull)

\* variant: orWhere tests its second argument the way where does
OrWhereTwoTested(b, field, second) ==
    IF second \notin OperatorStrings
    THEN OrWhere(b, field, second)
    ELSE PushWhere(b, Cond(field, second, <<JsNull>>, "OR"))

\* orWhere(field, second) with exactly two arguments: the second is the
\* value
OrWhereTwo(b, field, second) == OrWhere(b, field, second)

\* whereNull and whereNotNull push no parameter
WhereNull(b, field) ==
    [b EXCEPT !.whereConditions = Append(@, Cond(field, "IS NULL", <<>>, "AND"))]

WhereNotNull(b, field) ==
    [b EXCEPT !.whereConditions =
                  Append(@, Cond(field, "IS NOT NULL", <<>>, "AND"))]

\* join(table, firstField, secondField) and its LEFT and RIGHT forms
Join(b, kind, table, firstField, secondField) ==
    [b EXCEPT !.joinClauses =
        Append(@, [type |-> kind, table |-> table, firstField |-> firstField,
                   operator |-> "=", secondField |-> secondField])]

GroupBy(b, fields) == [b EXCEPT !.groupByFields = fields]

\* having(field, operator, value)
Having(b, field, operator, value) ==
    [b EXCEPT !.havingConditions =
                  Append(@, Cond(field, operator, <<value>>, "AND")),
              !.params = Append(@, value)]

\* String.prototype.toUpperCase on the directions of an ordering
ToUpperCase(direction) ==
    CASE direction = "asc" -> "ASC"
      [] direction = "desc" -> "DESC"
      [] direction = "Desc" -> "DESC"
      [] OTHER -> direction

OrderBy(b, field, direction) ==
    [b EXCEPT !.orderByFields =
        Append(@, [field |-> field, direction |-> ToUpperCase(direction)])]

\* a number that parseInt gives: an integer, or NaN
Whole(n) == [nan |-> FALSE, n |-> n]

NaN == [nan |-> TRUE, n |-> 0]

\* variant: text without a leading integer parses to 0
ParseIntOrZero(text) ==
    CASE text = "10" -> Whole(10)
      [] text = "5" -> Whole(5)
      [] text = "1" -> Whole(1)
      [] text = "3.7" -> Whole(3)
      [] text = "10abc" -> Whole(10)
      [] text = "-5" -> Whole(0 - 5)
      [] OTHER -> Whole(0)

\* parseInt(value) on the text of the argument, String(value): the integer
\* that the text starts with, the rest dropped, and NaN when it starts with
\* none ("abc", "null", "undefined", "")
ParseInt(text) ==
    CASE text = "10" -> Whole(10)
      [] text = "5" -> Whole(5)
      [] text = "1" -> Whole(1)
      [] text = "3.7" -> Whole(3)
      [] text = "10abc" -> Whole(10)
      [] text = "-5" -> Whole(0 - 5)
      [] OTHER -> NaN

\* limit(value) and offset(value); the argument is given by its text
Limit(b, value) == [b EXCEPT !.limitValue = Some(ParseInt(value))]

Offset(b, value) == [b EXCEPT !.offsetValue = Some(ParseInt(value))]

\* the result of toSQL(): the text and the parameters, or the error thrown
Compiled(sql, params) ==
    [ok |-> TRUE, sql |-> sql, params |-> params, error |-> "none"]

Thrown(message) ==
    [ok |-> FALSE, sql |-> <<>>, params |-> <<>>, error |-> message]

\* `${this.tableName}`
TableText(b) ==
    IF b.tableName = None THEN <<Id("null")>> ELSE <<Id(b.tableName[1])>>

\* variant: an IN list takes a single marker
InPlaceholdersOne(type, paramCounter, n) ==
    <<Marker(type, paramCounter + 1)>>

\* the markers of one IN list, numbered from paramCounter + 1
InPlaceholders(type, paramCounter, n) ==
    JoinComma([i \in 1 .. n |-> <<Marker(type, paramCounter + i)>>])

\* variant: every condition is led by its conjunction
RECURSIVE WhereFromAlwaysLed(_, _, _, _)
WhereFromAlwaysLed(conds, index, paramCounter, type) ==
    IF index > Len(conds) THEN <<>>
    ELSE LET condition == conds[index]
             lead == <<Kw(condition.type)>>
             head == lead \o <<Id(condition.field), Op(condition.operator)>>
         IN  IF condition.operator \in {"IN", "NOT IN"}
             THEN head \o <<Kw("(")>>
                    \o InPlaceholders(type, paramCounter, Len(condition.value))
                    \o <<Kw(")")>>
                    \o WhereFromAlwaysLed(conds, index + 1,
                                 paramCounter + Len(condition.value), type)
             ELSE IF condition.operator \in {"IS NULL", "IS NOT NULL"}
             THEN head \o WhereFromAlwaysLed(conds, index + 1, paramCounter, type)
             ELSE head \o <<Marker(type, paramCounter + 1)>>
                    \o WhereFromAlwaysLed(conds, index + 1, paramCounter + 1, type)

\* the forEach of _buildWhereClause from condition `index` on
RECURSIVE WhereFrom(_, _, _, _)
WhereFrom(conds, index, paramCounter, type) ==
    IF index > Len(conds) THEN <<>>
    ELSE LET condition == conds[index]
             lead == IF index > 1 THEN <<Kw(condition.type)>> ELSE <<>>
             head == lead \o <<Id(condition.field), Op(condition.operator)>>
         IN  IF condition.operator \in {"IN", "NOT IN"}
             THEN head \o <<Kw("(")>>
                    \o InPlaceholders(type, paramCounter, Len(condition.value))
                    \o <<Kw(")")>>
                    \o WhereFrom(conds, index + 1,
                                 paramCounter + Len(condition.value), type)
             ELSE IF condition.operator \in {"IS NULL", "IS NOT NULL"}
             THEN head \o WhereFrom(conds, index + 1, paramCounter, type)
             ELSE head \o <<Marker(type, paramCounter + 1)>>
                    \o WhereFrom(conds, index + 1, paramCounter + 1, type)

\* _buildWhereClause(): paramCounter starts at 0
BuildWhereClause(b) == WhereFrom(b.whereConditions, 1, 0, b.databaseType[1])

\* the WHERE part that the three builders with conditions share
WherePart(b) ==
    IF Len(b.whereConditions) > 0
    THEN <<Kw("WHERE")>> \o BuildWhereClause(b) ELSE <<>>

\* _buildHavingClause(): the value is written into the text
BuildHavingClause(b) ==
    Flatten([i \in 1 .. Len(b.havingConditions) |->
        LET condition == b.havingConditions[i]
        IN  (IF i > 1 THEN <<Kw(condition.type)>> ELSE <<>>)
              \o <<Id(condition.field), Op(condition.operator),
                   Lit(condition.value[1])>>])

JoinPart(b) ==
    Flatten([i \in 1 .. Len(b.joinClauses) |->
        LET join == b.joinClauses[i]
        IN  <<Kw(join.type), Kw("JOIN"), Id(join.table), Kw("ON"),
              Id(join.firstField), Op(join.operator), Id(join.secondField)>>])

GroupByPart(b) ==
    IF Len(b.groupByFields) > 0
    THEN <<Kw("GROUP BY")>>
           \o JoinComma([i \in 1 .. Len(b.groupByFields) |->
                             <<Id(b.groupByFields[i])>>])
    ELSE <<>>

HavingPart(b) ==
    IF Len(b.havingConditions) > 0
    THEN <<Kw("HAVING")>> \o BuildHavingClause(b) ELSE <<>>

OrderByPart(b) ==
    IF Len(b.orderByFields) > 0
    THEN <<Kw("ORDER BY")>>
           \o JoinComma([i \in 1 .. Len(b.orderByFields) |->
                  <<Id(b.orderByFields[i].field),
                    Kw(b.orderByFields[i].direction)>>])
    ELSE <<>>

\* `${this.limitValue}`: the digits of an integer, or the text NaN
NumText(x) == IF x.nan THEN Tok("lit", "NaN", 0) ELSE Lit(x.n)

\* variant: OFFSET is written whether or not a limit is set
LimitPartOffsetAlone(b) ==
    (IF b.limitValue # None
     THEN <<Kw("LIMIT"), NumText(b.limitValue[1])>> ELSE <<>>)
      \o (IF b.offsetValue # None
          THEN <<Kw("OFFSET"), NumText(b.offsetValue[1])>> ELSE <<>>)

\* LIMIT and, inside it, OFFSET
LimitPart(b) ==
    IF b.limitValue # None
    THEN <<Kw("LIMIT"), NumText(b.limitValue[1])>>
           \o (IF b.offsetValue # None
               THEN <<Kw("OFFSET"), NumText(b.offsetValue[1])>> ELSE <<>>)
    ELSE <<>>

BuildSelectQuery(b) ==
    Compiled(<<Kw("SELECT")>>
               \o JoinComma([i \in 1 .. Len(b.selectFields) |->
                                 <<Id(b.selectFields[i])>>])
               \o <<Kw("FROM")>> \o TableText(b)
               \o JoinPart(b) \o WherePart(b) \o GroupByPart(b)
               \o HavingPart(b) \o OrderByPart(b) \o LimitPart(b),
             b.params)

\* Object.keys and Object.values of a payload
Keys(data) == [i \in 1 .. Len(data) |-> data[i].field]

\* variant: the values come out last key first
ValuesReversed(data) ==
    [i \in 1 .. Len(data) |-> data[Len(data) + 1 - i].value]

Values(data) == [i \in 1 .. Len(data) |-> data[i].value]

BuildInsertQuery(b) ==
    IF b.insertData = None THEN Thrown("Insert data must be specified")
    ELSE LET fields == Keys(b.insertData[1])
             type == b.databaseType[1]
         IN  Compiled(<<Kw("INSERT INTO")>> \o TableText(b) \o <<Kw("(")>>
                        \o JoinComma([i \in 1 .. Len(fields) |->
                                          <<Id(fields[i])>>])
                        \o <<Kw(")"), Kw("VALUES"), Kw("(")>>
                        \o JoinComma([i \in 1 .. Len(fields) |->
                                          <<Marker(type, i)>>])
                        \o <<Kw(")")>>,
                      Values(b.insertData[1]))

\* variant: the parameters are the condition values, then the payload's
UpdateParamsWhereFirst(b) == b.params \o Values(b.updateData[1])

\* [...values, ...this.params]
UpdateParams(b) == Values(b.updateData[1]) \o b.params

BuildUpdateQuery(b) ==
    IF b.updateData = None THEN Thrown("Update data must be specified")
    ELSE LET fields == Keys(b.updateData[1])
             type == b.databaseType[1]
         IN  Compiled(<<Kw("UPDATE")>> \o TableText(b) \o <<Kw("SET")>>
                        \o JoinComma([i \in 1 .. Len(fields) |->
                               <<Id(fields[i]), Op("="), Marker(type, i)>>])
                        \o WherePart(b),
                      UpdateParams(b))

BuildDeleteQuery(b) ==
    Compiled(<<Kw("DELETE FROM")>> \o TableText(b) \o WherePart(b), b.params)

ToSQL(b) ==
    IF b.databaseType = None
    THEN Thrown("Database type must be specified using .database() method")
    ELSE IF b.queryType = Some("SELECT") THEN BuildSelectQuery(b)
    ELSE IF b.queryType = Some("INSERT") THEN BuildInsertQuery(b)
    ELSE IF b.queryType = Some("UPDATE") THEN BuildUpdateQuery(b)
    ELSE IF b.queryType = Some("DELETE") THEN BuildDeleteQuery(b)
    ELSE Thrown("Query type must be specified")

\* variant: toSQL() empties the recorded parameters once it has read them
AfterToSQLDrained(b) == [b EXCEPT !.params = <<>>]

\* the builder after toSQL(): no statement of toSQL or of the _build
\* methods assigns a field of `this`
AfterToSQL(b) == b

\* variant: every statement returns the array this.params itself
SharesParamsAlways(b) == TRUE

\* whether the `params` of the result is the array this.params itself:
\* `params: this.params` for SELECT and DELETE, a new array for INSERT
\* (Object.values) and UPDATE (a spread)
SharesParams(b) == b.queryType \in {Some("SELECT"), Some("DELETE")}

\* a terminal call: the builder it leaves and what it returns or throws
Terminal(b, out) == [b |-> b, out |-> out]

\* variant: first() compiles with limit 1 and leaves the builder alone
FirstKeepsLimit(b) == Terminal(b, ToSQL(Limit(b, "1")))

\* first(): this.limit(1).toSQL()
First(b) == Terminal(AfterToSQL(Limit(b, "1")), ToSQL(Limit(b, "1")))

\* `COUNT(${field}) as count`
CountExpr(field) ==
    CASE field = "*" -> "COUNT(*) as count"
      [] field = "id" -> "COUNT(id) as count"
      [] OTHER -> "COUNT(?) as count"

\* count(field)
Count(b, field) ==
    LET c == [b EXCEPT !.selectFields = <<CountExpr(field)>>]
    IN  Terminal(AfterToSQL(c), ToSQL(c))

\* get() and toSQL() as terminal calls
Get(b) == Terminal(AfterToSQL(b), ToSQL(b))

----------------------------------------------------------------------------
(* A builder in use: `qb.b` is the builder, `qb.out` what the last toSQL() *)
(* gave.  The builder is created for a dialect and given its table; then   *)
(* the query kind is chosen once and conditions are added in any order.    *)

MaxConds == 2

\* "sqlite" stands for every name the switch statements do not list
QbTypes == {"mysql", "PostgreSQL", "snowflake", "sqlite"}

QbFields == {"age", "name"}

QbValues == {18, 25}

QbOperators == {"=", ">="}

InLists == {<<>>, <<18>>, <<25, 18>>}

Payload(fields, values) ==
    [i \in 1 .. Len(fields) |-> [field |-> fields[i], value |-> values[i]]]

Payloads ==
    {Payload(<<"name">>, <<25>>), Payload(<<"name", "age">>, <<18, 25>>),
     Payload(<<"age", "name">>, <<25, 18>>)}

NoOut == [ok |-> FALSE, sql |-> <<>>, params |-> <<>>, error |-> "not compiled"]

Building(b) == [on |-> TRUE, b |-> b, out |-> NoOut]

Engineless == UNCHANGED vars /\ UNCHANGED <<race, schemas, made, setup, conns, orm>>

QbInit ==
    /\ EngineInit
    /\ race = NoRace
    /\ schemas = NoSchemas
    /\ made = NoMade
    /\ setup = NoSetup
    /\ conns = NoConns
    /\ orm = NoOrm
    /\ \E type \in QbTypes : qb = Building(Table(Create(type), "users"))

NumConds(b) == Len(b.whereConditions) + Len(b.havingConditions)

QbSelect ==
    /\ qb.b.queryType = None
    /\ qb' = Building(Select(qb.b, <<"*">>))

QbInsert(data) ==
    /\ qb.b.queryType = None
    /\ qb' = Building(Insert(qb.b, data))

QbUpdate(data) ==
    /\ qb.b.queryType = None
    /\ qb' = Building(Update(qb.b, data))

QbDelete ==
    /\ qb.b.queryType = None
    /\ qb' = Building(Delete(qb.b))

QbWhere(field, operator, value) ==
    /\ NumConds(qb.b) < MaxConds
    /\ qb' = Building(Where(qb.b, field, operator, value))

QbOrWhere(field, value) ==
    /\ NumConds(qb.b) < MaxConds
    /\ qb' = Building(OrWhere(qb.b, field, value))

QbWhereIn(field, values) ==
    /\ NumConds(qb.b) < MaxConds
    /\ qb' = Building(WhereIn(qb.b, field, values))

QbWhereNotIn(field, values) ==
    /\ NumConds(qb.b) < MaxConds
    /\ qb' = Building(WhereNotIn(qb.b, field, values))

QbWhereLike(field, pattern) ==
    /\ NumConds(qb.b) < MaxConds
    /\ qb' = Building(WhereLike(qb.b, field, pattern))

QbWhereNull(field) ==
    /\ NumConds(qb.b) < MaxConds
    /\ qb' = Building(WhereNull(qb.b, field))

QbWhereNotNull(field) ==
    /\ NumConds(qb.b) < MaxConds
    /\ qb' = Building(WhereNotNull(qb.b, field))

QbHaving(field, operator, value) ==
    /\ NumConds(qb.b) < MaxConds
    /\ qb' = Building(Having(qb.b, field, operator, value))

QbToSQL ==
    /\ qb.out = NoOut
    /\ qb' = [qb EXCEPT !.out = ToSQL(qb.b)]

QbNext ==
    \/ QbSelect /\ Engineless
    \/ \E data \in Payloads : QbInsert(data) /\ Engineless
    \/ \E data \in Payloads : QbUpdate(data) /\ Engineless
    \/ QbDelete /\ Engineless
    \/ \E o \in QbOperators, v \in QbValues : QbWhere("age", o, v) /\ Engineless
    \/ \E v \in QbValues : QbOrWhere("name", v) /\ Engineless
    \/ \E l \in InLists : QbWhereIn("age", l) /\ Engineless
    \/ \E l \in InLists : QbWhereNotIn("name", l) /\ Engineless
    \/ \E v \in QbValues : QbWhereLike("name", v) /\ Engineless
    \/ \E f \in QbFields : QbWhereNull(f) /\ Engineless
    \/ QbWhereNotNull("age") /\ Engineless
    \/ \E v \in QbValues : QbHaving("age", ">=", v) /\ Engineless
    \/ QbToSQL /\ Engineless

QbSpec == QbInit /\ [][QbNext]_qb

QbTypeOK ==
    /\ qb.on
    /\ qb.b.databaseType \in {Some(ToLowerCase(t)) : t \in QbTypes}
    /\ NumConds(qb.b) <= MaxConds
    /\ qb.out.ok \in BOOLEAN

----------------------------------------------------------------------------
(* A builder of SELECT statements: the calls that shape the clauses.       *)

MaxJoins == 2

MaxOrder == 2

SelectTypes == {"mysql", "postgresql"}

SelectLists == {<<"*">>, <<"id", "name">>}

JoinKinds == {"INNER", "LEFT", "RIGHT"}

GroupLists == {<<"name">>, <<"age", "name">>}

Directions == {"ASC", "desc"}

QbSelectInit ==
    /\ EngineInit
    /\ race = NoRace
    /\ schemas = NoSchemas
    /\ made = NoMade
    /\ setup = NoSetup
    /\ conns = NoConns
    /\ orm = NoOrm
    /\ \E type \in SelectTypes : qb = Building(Table(Create(type), "users"))

QbSelectFields(fields) ==
    /\ qb.b.queryType = None
    /\ qb' = Building(Select(qb.b, fields))

QbJoin(kind) ==
    /\ Len(qb.b.joinClauses) < MaxJoins
    /\ qb' = Building(Join(qb.b, kind, "orders", "users.id", "orders.user_id"))

QbGroupBy(fields) ==
    /\ qb.b.groupByFields = <<>>
    /\ qb' = Building(GroupBy(qb.b, fields))

QbOrderBy(field, direction) ==
    /\ Len(qb.b.orderByFields) < MaxOrder
    /\ qb' = Building(OrderBy(qb.b, field, direction))

QbLimit(value) ==
    /\ qb.b.limitValue = None
    /\ qb' = Building(Limit(qb.b, value))

QbOffset(value) ==
    /\ qb.b.offsetValue = None
    /\ qb' = Building(Offset(qb.b, value))

QbSelectNext ==
    \/ \E fields \in SelectLists : QbSelectFields(fields) /\ Engineless
    \/ \E kind \in JoinKinds : QbJoin(kind) /\ Engineless
    \/ QbWhere("age", ">=", 18) /\ Engineless
    \/ QbWhereNull("name") /\ Engineless
    \/ \E fields \in GroupLists : QbGroupBy(fields) /\ Engineless
    \/ QbHaving("age", ">=", 25) /\ Engineless
    \/ \E d \in Directions : QbOrderBy("name", d) /\ Engineless
    \/ QbLimit("10") /\ Engineless
    \/ QbOffset("5") /\ Engineless
    \/ QbToSQL /\ Engineless

QbSelectSpec == QbSelectInit /\ [][QbSelectNext]_qb

----------------------------------------------------------------------------
(* A builder whose results are kept by the caller.  `qb.out` is what the   *)
(* last terminal call gave, `qb.last` the name of the last call,           *)
(* `qb.before` the builder as it was before the last terminal call,        *)
(* `qb.held` the first result that was returned and whether its `params`   *)
(* is the builder's own array, `qb.n` the number of terminal calls made,   *)
(* `qb.run` the number of toSQL() calls made since the last other call,    *)
(* `qb.failed` the number of terminal calls that threw.                    *)

MaxCompiles == 2

LimitInputs == {"10", "3.7", "abc"}

OffsetInputs == {"5", "null"}

NoHeld == [set |-> FALSE, was |-> NoOut, shared |-> FALSE]

QuInit ==
    /\ EngineInit
    /\ race = NoRace
    /\ schemas = NoSchemas
    /\ made = NoMade
    /\ setup = NoSetup
    /\ conns = NoConns
    /\ orm = NoOrm
    /\ \E type \in SelectTypes :
          qb = [on |-> TRUE, b |-> Table(Create(type), "users"),
                out |-> NoOut, last |-> "create",
                before |-> Table(Create(type), "users"),
                held |-> NoHeld, n |-> 0, run |-> 0, failed |-> 0]

\* a chainable call
QuCall(b) == qb' = [qb EXCEPT !.b = b, !.last = "call", !.run = 0]

\* a terminal call: the caller keeps the first result that is returned
QuTerminal(name, t) ==
    /\ qb.n < MaxCompiles
    /\ qb' = [qb EXCEPT
                !.b = t.b, !.out = t.out, !.last = name, !.before = qb.b,
                !.n = @ + 1, !.run = IF name = "toSQL" THEN @ + 1 ELSE 0,
                !.failed = IF t.out.ok THEN @ ELSE @ + 1,
                !.held = IF ~qb.held.set /\ t.out.ok
                         THEN [set |-> TRUE, was |-> t.out,
                               shared |-> SharesParams(qb.b)]
                         ELSE @]

QuSelect == qb.b.queryType = None /\ QuCall(Select(qb.b, <<"*">>))

QuInsert(data) == qb.b.queryType = None /\ QuCall(Insert(qb.b, data))

QuUpdate(data) == qb.b.queryType = None /\ QuCall(Update(qb.b, data))

QuDelete == qb.b.queryType = None /\ QuCall(Delete(qb.b))

QuWhere(value) ==
    NumConds(qb.b) < MaxConds /\ QuCall(Where(qb.b, "age", ">=", value))

QuHaving(value) ==
    NumConds(qb.b) < MaxConds /\ QuCall(Having(qb.b, "age", ">=", value))

QuLimit(value) == qb.b.limitValue = None /\ QuCall(Limit(qb.b, value))

QuOffset(value) == qb.b.offsetValue = None /\ QuCall(Offset(qb.b, value))

QuToSQL == QuTerminal("toSQL", Get(qb.b))

QuFirst == QuTerminal("first", First(qb.b))

QuCount(field) == QuTerminal("count", Count(qb.b, field))

QuNext ==
    \/ QuSelect /\ Engineless
    \/ QuInsert(Payload(<<"name", "age">>, <<18, 25>>)) /\ Engineless
    \/ QuUpdate(Payload(<<"name">>, <<25>>)) /\ Engineless
    \/ QuDelete /\ Engineless
    \/ QuWhere(18) /\ Engineless
    \/ QuHaving(25) /\ Engineless
    \/ \E value \in LimitInputs : QuLimit(value) /\ Engineless
    \/ \E value \in OffsetInputs : QuOffset(value) /\ Engineless
    \/ QuToSQL /\ Engineless
    \/ QuFirst /\ Engineless
    \/ QuCount("*") /\ Engineless

QuSpec == QuInit /\ [][QuNext]_qb

QuTypeOK ==
    /\ qb.on
    /\ qb.n \in 0 .. MaxCompiles
    /\ qb.out.ok \in BOOLEAN
    /\ qb.held.set \in BOOLEAN

----------------------------------------------------------------------------
(* A builder that starts with nothing set: the dialect, the table, the     *)
(* kind of statement and the payload are supplied one by one, in any       *)
(* order, and toSQL() is called at any point.  A payload that was absent   *)
(* or empty may be given again.                                            *)

\* "MySQL" is lowered by database(); "sqlite" is none of the listed names
GivenTypes == {"MySQL", "postgresql", "sqlite"}

\* an object with no fields, and one with two
GivenPayloads == {<<>>, Payload(<<"name", "age">>, <<18, 25>>)}

QfInit ==
    /\ EngineInit
    /\ race = NoRace
    /\ schemas = NoSchemas
    /\ made = NoMade
    /\ setup = NoSetup
    /\ conns = NoConns
    /\ orm = NoOrm
    /\ qb = [on |-> TRUE, b |-> NewBuilder, out |-> NoOut, last |-> "new",
             before |-> NewBuilder, held |-> NoHeld, n |-> 0, run |-> 0,
             failed |-> 0]

QfDatabase(type) ==
    qb.b.databaseType = None /\ QuCall(Database(qb.b, type))

QfTable == qb.b.tableName = None /\ QuCall(Table(qb.b, "users"))

QfInsert(data) ==
    /\ qb.b.queryType \in {None, Some("INSERT")}
    /\ qb.b.insertData # Some(data)
    /\ QuCall(Insert(qb.b, data))

QfInsertAbsent == qb.b.queryType = None /\ QuCall(InsertAbsent(qb.b))

QfUpdate(data) ==
    /\ qb.b.queryType \in {None, Some("UPDATE")}
    /\ qb.b.updateData # Some(data)
    /\ QuCall(Update(qb.b, data))

QfUpdateAbsent == qb.b.queryType = None /\ QuCall(UpdateAbsent(qb.b))

QfNext ==
    \/ \E type \in GivenTypes : QfDatabase(type) /\ Engineless
    \/ QfTable /\ Engineless
    \/ QuSelect /\ Engineless
    \/ QuDelete /\ Engineless
    \/ \E data \in GivenPayloads : QfInsert(data) /\ Engineless
    \/ QfInsertAbsent /\ Engineless
    \/ \E data \in GivenPayloads : QfUpdate(data) /\ Engineless
    \/ QfUpdateAbsent /\ Engineless
    \/ QuWhere(18) /\ Engineless
    \/ QuToSQL /\ Engineless

QfSpec == QfInit /\ [][QfNext]_qb

----------------------------------------------------------------------------
(* A builder whose conditions are given with two arguments.  Values are    *)
(* strings here; `qb.given` lists the calls made, with their arguments.    *)

GivenValues == {"Jane", "admin", ">=", "="}

QaInit ==
    /\ EngineInit
    /\ race = NoRace
    /\ schemas = NoSchemas
    /\ made = NoMade
    /\ setup = NoSetup
    /\ conns = NoConns
    /\ orm = NoOrm
    /\ \E type \in SelectTypes :
          qb = [on |-> TRUE,
                b |-> Select(Table(Create(type), "users"), <<"*">>),
                out |-> NoOut, given |-> <<>>]

Given(method, field, second) ==
    [call |-> method, field |-> field, second |-> second]

QaWhere(field, second) ==
    /\ NumConds(qb.b) < MaxConds
    /\ qb' = [qb EXCEPT !.b = WhereTwo(@, field, second), !.out = NoOut,
                        !.given = Append(@, Given("where", field, second))]

QaOrWhere(field, second) ==
    /\ NumConds(qb.b) < MaxConds
    /\ qb' = [qb EXCEPT !.b = OrWhereTwo(@, field, second), !.out = NoOut,
                        !.given = Append(@, Given("orWhere", field, second))]

QaNext ==
    \/ \E f \in QbFields, v \in GivenValues : QaWhere(f, v) /\ Engineless
    \/ \E f \in QbFields, v \in GivenValues : QaOrWhere(f, v) /\ Engineless
    \/ QbToSQL /\ Engineless

QaSpec == QaInit /\ [][QaNext]_qb
\* ---------------------------------------------------------------------
\* MigrationManager._compareSchemas: the differences between two schema
\* snapshots. A snapshot is an object keyed by table name; a table has an
\* object of columns and an object of indexes, each keyed by name; a
\* definition is an object whose keys keep the order they were written in,
\* given here as the sequence of its <<key, value>> pairs. An object is a
\* function on its keys, and Object.keys lists them in the order of `names`.
\* ---------------------------------------------------------------------

\* Object.keys(obj)
ObjectKeys(obj, names) == SelectSeq(names, LAMBDA k : k \in DOMAIN obj)

\* obj || {}
OrEmpty(obj) == IF obj = None THEN <<>> ELSE obj[1]

\* array.includes(x)
Includes(array, x) == \E i \in DOMAIN array : array[i] = x

\* array.map(f)
Map(array, f(_)) == [i \in DOMAIN array |-> f(array[i])]

\* JSON.stringify(definition): the keys and values in the order written
Stringify(definition) ==
    <<"{">> \o Flatten([i \in DOMAIN definition |->
                          <<definition[i][1], ":", definition[i][2]>>])
            \o <<"}">>

\* a variant that finds every pair of definitions different
DiffersAlways(fromDefinition, toDefinition) == TRUE

\* a variant that compares the pairs of the definitions whatever their order
DiffersDeep(fromDefinition, toDefinition) ==
    Range(fromDefinition) # Range(toDefinition)

\* JSON.stringify(from) !== JSON.stringify(to)
Differs(fromDefinition, toDefinition) ==
    Stringify(fromDefinition) # Stringify(toDefinition)

TableNames == <<"posts", "users">>
ColumnNames == <<"email", "id">>
IndexNames == <<"idx_email">>

\* toList.filter(x => !fromList.includes(x))
OnlyIn(toList, fromList) ==
    SelectSeq(toList, LAMBDA x : ~Includes(fromList, x))

\* fromList.filter(x => toList.includes(x))
Common(fromList, toList) ==
    SelectSeq(fromList, LAMBDA x : Includes(toList, x))

FromColumns(fromTable) == ObjectKeys(OrEmpty(fromTable.columns), ColumnNames)

FromIndexes(fromTable) == ObjectKeys(OrEmpty(fromTable.indexes), IndexNames)

\* the columns of toTable that fromTable lacks, with their definitions
AddedColumns(fromTable, toTable) ==
    Map(OnlyIn(FromColumns(toTable), FromColumns(fromTable)),
        LAMBDA col : [name |-> col, definition |-> toTable.columns[1][col]])

\* the columns both have whose definitions serialize differently
ModifiedColumns(fromTable, toTable) ==
    Map(SelectSeq(Common(FromColumns(fromTable), FromColumns(toTable)),
                  LAMBDA col : Differs(fromTable.columns[1][col],
                                       toTable.columns[1][col])),
        LAMBDA col : [name |-> col, from |-> fromTable.columns[1][col],
                      to |-> toTable.columns[1][col]])

\* a variant that also lists an index both tables name when its definition
\* serializes differently
AddedIndexesOrChanged(fromTable, toTable) ==
    Map(SelectSeq(FromIndexes(toTable),
                  LAMBDA idx : \/ ~Includes(FromIndexes(fromTable), idx)
                               \/ Differs(fromTable.indexes[1][idx],
                                          toTable.indexes[1][idx])),
        LAMBDA idx : [name |-> idx, definition |-> toTable.indexes[1][idx]])

\* the indexes of toTable whose name fromTable lacks
AddedIndexes(fromTable, toTable) ==
    Map(OnlyIn(FromIndexes(toTable), FromIndexes(fromTable)),
        LAMBDA idx : [name |-> idx, definition |-> toTable.indexes[1][idx]])

\* an object with a key for each common table whose list is not empty
PerTable(fromObj, toObj, list(_, _)) ==
    LET commonTables == Common(ObjectKeys(fromObj, TableNames),
                               ObjectKeys(toObj, TableNames))
    IN [table \in {t \in Range(commonTables) :
                     Len(list(fromObj[t], toObj[t])) > 0}
          |-> list(fromObj[table], toObj[table])]

CompareSchemas(fromSchema, toSchema) ==
    LET fromObj == OrEmpty(fromSchema)
        toObj == OrEmpty(toSchema)
        fromTables == ObjectKeys(fromObj, TableNames)
        toTables == ObjectKeys(toObj, TableNames)
    IN [addedTables |-> OnlyIn(toTables, fromTables),
        droppedTables |-> OnlyIn(fromTables, toTables),
        modifiedTables |-> <<>>,
        addedColumns |-> PerTable(fromObj, toObj, AddedColumns),
        droppedColumns |->
            PerTable(fromObj, toObj, LAMBDA f, t : AddedColumns(t, f)),
        modifiedColumns |-> PerTable(fromObj, toObj, ModifiedColumns),
        addedIndexes |-> PerTable(fromObj, toObj, AddedIndexes),
        droppedIndexes |->
            PerTable(fromObj, toObj, LAMBDA f, t : AddedIndexes(t, f))]

\* ---------------------------------------------------------------------
\* The comparison applied to two snapshots given by a caller.
\* ---------------------------------------------------------------------

ColumnDefinitions ==
    {<<<<"type", "integer">>>>,
     <<<<"type", "string">>>>,
     <<<<"type", "string">>, <<"nullable", "false">>>>,
     <<<<"nullable", "false">>, <<"type", "string">>>>}

IndexDefinitions ==
    {<<<<"columns", "email">>>>,
     <<<<"columns", "email">>, <<"unique", "true">>>>}

\* the objects with some of `names` as keys and values from `definitions`
Objects(names, definitions) ==
    UNION {[keys -> definitions] : keys \in SUBSET Range(names)}

\* an object, or no object at all
Optional(objects) == {None} \cup {Some(obj) : obj \in objects}

GivenTables ==
    [columns : Optional(Objects(ColumnNames, ColumnDefinitions)),
     indexes : Optional(Objects(IndexNames, IndexDefinitions))]

PostsTable ==
    [columns |-> Some("id" :> <<<<"type", "integer">>>>), indexes |-> None]

\* snapshots with any `users` table, with or without the `posts` table
Snapshots ==
    Optional({<<>>, "posts" :> PostsTable}
             \cup {"users" :> t : t \in GivenTables}
             \cup {("users" :> t) @@ ("posts" :> PostsTable) :
                     t \in GivenTables})

\* the literal _compareSchemas starts from
NoDifferences ==
    [addedTables |-> <<>>, droppedTables |-> <<>>, modifiedTables |-> <<>>,
     addedColumns |-> <<>>, droppedColumns |-> <<>>,
     modifiedColumns |-> <<>>, addedIndexes |-> <<>>,
     droppedIndexes |-> <<>>]

Builderless == UNCHANGED vars /\ UNCHANGED <<race, qb, made, setup, conns, orm>>

DiffInit ==
    /\ EngineInit
    /\ race = NoRace
    /\ qb = NoBuilder
    /\ made = NoMade
    /\ setup = NoSetup
    /\ conns = NoConns
    /\ orm = NoOrm
    /\ \E fromSchema \in Snapshots, toSchema \in Snapshots :
         schemas = [on |-> TRUE, fromSchema |-> fromSchema,
                    toSchema |-> toSchema, compared |-> FALSE,
                    differences |-> NoDifferences]

\* _compareSchemas(fromSchema, toSchema)
DiffCompare ==
    /\ schemas.on
    /\ ~schemas.compared
    /\ schemas' = [schemas EXCEPT
                     !.compared = TRUE,
                     !.differences =
                         CompareSchemas(schemas.fromSchema, schemas.toSchema)]
    /\ Builderless

DiffNext == DiffCompare

DiffSpec == DiffInit /\ [][DiffNext]_schemas
\* ---------------------------------------------------------------------
\* MigrationManager.create(name): a migration file named after the clock
\* second and the name. A name is the sequence of its characters; the clock
\* counts ticks, several to the second.
\* ---------------------------------------------------------------------

MaxClock == 3

MaxCreates == 3

TicksPerSecond == 2

\* the UTF-16 code units of the characters used
CharCode(c) ==
    CASE c = " " -> 32
      [] c = "." -> 46
      [] c = "B" -> 66
      [] c = "_" -> 95
      [] c = "a" -> 97
      [] c = "b" -> 98
      [] c = "j" -> 106
      [] c = "s" -> 115

\* name.toLowerCase()
LowerCased(name) ==
    [i \in DOMAIN name |-> IF name[i] = "B" THEN "b" ELSE name[i]]

\* the text after the leading white space
RECURSIVE AfterSpaces(_)
AfterSpaces(text) ==
    IF text # <<>> /\ Head(text) = " " THEN AfterSpaces(Tail(text)) ELSE text

\* text.replace(/\s+/g, '_')
RECURSIVE Underscored(_)
Underscored(text) ==
    IF text = <<>> THEN <<>>
    ELSE IF Head(text) = " "
         THEN <<"_">> \o Underscored(AfterSpaces(text))
         ELSE <<Head(text)>> \o Underscored(Tail(text))

\* new Date().toISOString().replace(/[^0-9]/g, '').slice(0, 14): the
\* fourteen digits of the clock second, given as the number of the second
Timestamp(now) == now \div TicksPerSecond

\* a variant that leaves the clock out of the name
FileNameUnstamped(now, name) ==
    [timestamp |-> 0,
     rest |-> <<"_">> \o Underscored(LowerCased(name)) \o <<".", "j", "s">>]

\* `${timestamp}_${name.toLowerCase().replace(/\s+/g, '_')}.js`
FileName(now, name) ==
    [timestamp |-> Timestamp(now),
     rest |-> <<"_">> \o Underscored(LowerCased(name)) \o <<".", "j", "s">>]

\* the order of two texts by their code units
RECURSIVE TextLess(_, _)
TextLess(a, b) ==
    IF b = <<>> THEN FALSE
    ELSE IF a = <<>> THEN TRUE
    ELSE IF Head(a) # Head(b) THEN CharCode(Head(a)) < CharCode(Head(b))
    ELSE TextLess(Tail(a), Tail(b))

\* the order .sort() puts two file names in: the fourteen digits first
FileLess(f, g) ==
    \/ f.timestamp < g.timestamp
    \/ f.timestamp = g.timestamp /\ TextLess(f.rest, g.rest)

GivenNames == {<<"a">>, <<"b">>, <<"B", " ", " ", "a">>}

MadeInit ==
    /\ EngineInit
    /\ race = NoRace
    /\ qb = NoBuilder
    /\ schemas = NoSchemas
    /\ setup = NoSetup
    /\ conns = NoConns
    /\ orm = NoOrm
    /\ made = [on |-> TRUE, now |-> 0, dir |-> {}, calls |-> <<>>]

Createless == UNCHANGED vars /\ UNCHANGED <<race, qb, schemas, setup, conns, orm>>

\* the clock advances
MadeTick ==
    /\ made.on
    /\ made.now < MaxClock
    /\ made' = [made EXCEPT !.now = made.now + 1]
    /\ Createless

\* create(name); fs.writeFile writes the file or raises
MadeCreate(name, written) ==
    /\ made.on
    /\ Len(made.calls) < MaxCreates
    /\ LET fileName == FileName(made.now, name)
       IN made' = [made EXCEPT
                     !.dir = IF written THEN made.dir \cup {fileName}
                             ELSE made.dir,
                     !.calls = Append(made.calls,
                                      [at |-> made.now, name |-> name,
                                       fileName |-> fileName,
                                       success |-> written])]
    /\ Createless

MadeNext ==
    \/ MadeTick
    \/ \E name \in GivenNames : MadeCreate(name, TRUE)
    \/ \E name \in GivenNames : MadeCreate(name, FALSE)

MadeSpec == MadeInit /\ [][MadeNext]_made
\* ---------------------------------------------------------------------
\* MigrationManager.initialize(): the migrations directory and the ledger
\* table, checked and then created.
\* ---------------------------------------------------------------------

MaxInits == 3

OrmTableExists(fn, adapterOk) == Respond(fn, adapterOk)

OrmCreateTable(fn, adapterOk) == Respond(fn, adapterOk)

\* exists.data: the answer of the check, or the {} of response.error
ExistsData(responded, tableThere) ==
    IF responded = "success"
    THEN (IF tableThere THEN "true" ELSE "false")
    ELSE "{}"

\* a variant that takes {} for false
TruthyBoolean(data) == data = "true"

\* what `!exists.data` negates: an object is truthy
Truthy(data) == data # "false"

\* one initialize(), with what fs.mkdir, the existence query and the
\* CREATE TABLE do
InitializeCall(s, mkdirOk, existsOk, createOk) ==
    LET checked == OrmTableExists(s.errorFn, existsOk)
        data == ExistsData(checked, s.tableThere)
        issued == mkdirOk /\ checked # "throws" /\ ~Truthy(data)
        created == OrmCreateTable(FALSE, createOk)
    IN [before |-> s.tableThere,
        check |-> IF ~mkdirOk THEN "none"
                  ELSE IF checked = "throws" THEN "throws" ELSE data,
        issued |-> issued,
        created |-> issued /\ created = "success",
        success |-> /\ mkdirOk
                    /\ checked # "throws"
                    /\ issued => created = "success"]

SetupInit ==
    /\ EngineInit
    /\ race = NoRace
    /\ qb = NoBuilder
    /\ schemas = NoSchemas
    /\ made = NoMade
    /\ conns = NoConns
    /\ orm = NoOrm
    /\ \E tableThere \in BOOLEAN, fn \in BOOLEAN :
         setup = [on |-> TRUE, tableThere |-> tableThere, errorFn |-> fn,
                  calls |-> <<>>]

Setupless == UNCHANGED vars /\ UNCHANGED <<race, qb, schemas, made, conns, orm>>

\* initialize()
SetupInitialize(mkdirOk, existsOk, createOk) ==
    /\ setup.on
    /\ Len(setup.calls) < MaxInits
    /\ LET c == InitializeCall(setup, mkdirOk, existsOk, createOk)
       IN setup' = [setup EXCEPT
                      !.tableThere = setup.tableThere \/ c.created,
                      !.errorFn = setup.errorFn /\ ~mkdirOk,
                      !.calls = Append(setup.calls, c)]
    /\ Setupless

SetupNext ==
    \E mkdirOk \in BOOLEAN, existsOk \in BOOLEAN, createOk \in BOOLEAN :
        SetupInitialize(mkdirOk, existsOk, createOk)

SetupSpec == SetupInit /\ [][SetupNext]_setup
\* ---------------------------------------------------------------------
\* ORM.getDbConnection, DatabaseManager.createConnection and ORM.cleanup.
\* A connection object is known by the number of its creation; a Map is a
\* function on its keys. getDbConnection runs in up to three steps, one
\* for each stretch between two awaits that others can interleave with.
\* The objects createConnection returns ({ pool, type }) have no `on`, so
\* getDbConnection registers no error listener.
\* ---------------------------------------------------------------------

MaxGets == 3

MaxCleanups == 1

Callers == {1, 2}

\* _generateConnectionKey(config) and _generatePoolKey(config)
ConnectionKeys == {"mysql://app@db:3306/shop", "postgresql://app@db:5432/shop"}

\* a variant that finds no key in any Map
HasNever(map, key) == FALSE

\* Map.prototype.has
Has(map, key) == key \in DOMAIN map

\* Map.prototype.set
SetKey(map, key, value) == (key :> value) @@ map

\* a variant that hands back what the DatabaseManager has pooled
ResolvedFromPools(c, key) == c.pools[key]

\* return this.connections.get(connectionKey)
Resolved(c, key) == c.connections[key]

Waiting == [pc |-> "idle", key |-> "none", conn |-> 0, made |-> FALSE,
            seen |-> 0, cleaned |-> 0]

\* what a finished call leaves for its caller: the connection, whether it
\* was closed by then, how many calls had finished when this one began, and
\* how many cleanups had run when it began and when it ended
Outcome(c, p, ok, conn) ==
    [caller |-> p, key |-> c.flight[p].key, ok |-> ok, conn |-> conn,
     closed |-> IF ok THEN c.objects[conn].closed ELSE FALSE,
     made |-> c.flight[p].made, own |-> c.flight[p].conn,
     seen |-> c.flight[p].seen,
     cleaned |-> c.flight[p].cleaned, cleanedSince |-> c.cleanups,
     alone |-> \A q \in Callers \ {p} : c.flight[q].pc = "idle"]

\* a variant of cleanup() that also forgets the pools of the DatabaseManager
AfterCleanupWithPools(c) ==
    [c EXCEPT
       !.objects = [i \in DOMAIN c.objects |->
                      [c.objects[i] EXCEPT
                         !.closed = @ \/ \E k \in DOMAIN c.connections :
                                           c.connections[k] = i]],
       !.connections = <<>>,
       !.pools = <<>>,
       !.cleanups = c.cleanups + 1]

\* cleanup(): pool.end() on every cached connection, then connections.clear()
AfterCleanup(c) ==
    [c EXCEPT
       !.objects = [i \in DOMAIN c.objects |->
                      [c.objects[i] EXCEPT
                         !.closed = @ \/ \E k \in DOMAIN c.connections :
                                           c.connections[k] = i]],
       !.connections = <<>>,
       !.cleanups = c.cleanups + 1]

ConnInit ==
    /\ EngineInit
    /\ race = NoRace
    /\ qb = NoBuilder
    /\ schemas = NoSchemas
    /\ made = NoMade
    /\ setup = NoSetup
    /\ orm = NoOrm
    /\ conns = [on |-> TRUE, connections |-> <<>>, pools |-> <<>>,
                objects |-> <<>>, flight |-> [p \in Callers |-> Waiting],
                log |-> <<>>, gets |-> 0, cleanups |-> 0]

Connless == UNCHANGED vars /\ UNCHANGED <<race, qb, schemas, made, setup, orm>>

\* getDbConnection(config) up to its first await: the connection is cached
\* (the call is over), or createConnection finds it pooled, or
\* createConnection creates a pool and starts testing it
ConnGet(p, key) ==
    /\ conns.on
    /\ conns.flight[p].pc = "idle"
    /\ conns.gets < MaxGets
    /\ LET begin == [conns EXCEPT
                       !.gets = conns.gets + 1,
                       !.flight[p] = [pc |-> "idle", key |-> key, conn |-> 0,
                                      made |-> FALSE, seen |-> Len(conns.log),
                                      cleaned |-> conns.cleanups]]
       IN IF Has(conns.connections, key)
          THEN conns' = [begin EXCEPT
                           !.log = Append(conns.log,
                                          Outcome(begin, p, TRUE,
                                                  Resolved(begin, key))),
                           !.flight[p] = Waiting]
          ELSE IF Has(conns.pools, key)
          THEN conns' = [begin EXCEPT
                           !.flight[p].pc = "resuming",
                           !.flight[p].conn = conns.pools[key]]
          ELSE conns' = [begin EXCEPT
                           !.objects = Append(conns.objects,
                                              [key |-> key, closed |-> FALSE]),
                           !.flight[p].pc = "connecting",
                           !.flight[p].made = TRUE,
                           !.flight[p].conn = Len(conns.objects) + 1]
    /\ Connless

\* the test of the new pool ends: createConnection pools the connection and
\* returns it, or the error is thrown on to the caller
ConnConnected(p, ok) ==
    /\ conns.on
    /\ conns.flight[p].pc = "connecting"
    /\ IF ok
       THEN conns' = [conns EXCEPT
                        !.pools = SetKey(conns.pools, conns.flight[p].key,
                                         conns.flight[p].conn),
                        !.flight[p].pc = "resuming"]
       ELSE conns' = [conns EXCEPT
                        !.log = Append(conns.log, Outcome(conns, p, FALSE, 0)),
                        !.flight[p] = Waiting]
    /\ Connless

\* getDbConnection after `await createConnection`: connections.set and return
ConnResume(p) ==
    /\ conns.on
    /\ conns.flight[p].pc = "resuming"
    /\ LET set == [conns EXCEPT
                     !.connections = SetKey(conns.connections,
                                            conns.flight[p].key,
                                            conns.flight[p].conn)]
       IN conns' = [set EXCEPT
                      !.log = Append(conns.log,
                                     Outcome(set, p, TRUE,
                                             Resolved(set, conns.flight[p].key))),
                      !.flight[p] = Waiting]
    /\ Connless

\* cleanup()
ConnCleanup ==
    /\ conns.on
    /\ conns.cleanups < MaxCleanups
    /\ conns' = AfterCleanup(conns)
    /\ Connless

ConnNext ==
    \/ \E p \in Callers, key \in ConnectionKeys : ConnGet(p, key)
    \/ \E p \in Callers : ConnConnected(p, TRUE)
    \/ \E p \in Callers : ConnConnected(p, FALSE)
    \/ \E p \in Callers : ConnResume(p)
    \/ ConnCleanup

ConnSpec == ConnInit /\ [][ConnNext]_conns
\* ---------------------------------------------------------------------
\* The operations of the ORM and the `response` object they all return.
\* Objects are known by their place in `objects`; the response object of
\* index.js is the first. A field that holds a method reads "method".
\* ---------------------------------------------------------------------

MaxOrmCalls == 3

OrmOperations ==
    {"create", "read", "update", "deleteRecord", "exists", "query",
     "createTable", "tableExists"}

\* what the adapter does: reports success, reports a failure, or raises
AdapterOutcomes == {"success", "failure", "raises"}

\* the data of the adapter's n-th answer
AdapterData == <<"rows 1", "rows 2", "rows 3", "rows 4">>

\* the `response` literal: the second `error` key, the method, wins
ResponseLiteral ==
    [statusCode |-> 200, message |-> "", error |-> "method", data |-> "{}",
     source_action |-> "", success |-> "method"]

ResponseObject == 1

\* the message each operation passes to response.success, to response.error
\* after a reported failure, and to response.error in its catch block
Message(op, outcome) ==
    CASE op = "create" ->
           (CASE outcome = "success" -> "Record created successfully"
              [] outcome = "failure" -> "Failed to create record"
              [] outcome = "raises" -> "Error creating record")
      [] op = "read" ->
           (CASE outcome = "success" -> "Records retrieved successfully"
              [] outcome = "failure" -> "Failed to read records"
              [] outcome = "raises" -> "Error reading records")
      [] op = "update" ->
           (CASE outcome = "success" -> "Record updated successfully"
              [] outcome = "failure" -> "Failed to update record"
              [] outcome = "raises" -> "Error updating record")
      [] op = "deleteRecord" ->
           (CASE outcome = "success" -> "Record deleted successfully"
              [] outcome = "failure" -> "Failed to delete record"
              [] outcome = "raises" -> "Error deleting record")
      [] op = "exists" ->
           (CASE outcome = "success" -> "Existence check completed"
              [] outcome = "failure" -> "Failed to check existence"
              [] outcome = "raises" -> "Error checking existence")
      [] op = "createTable" ->
           (CASE outcome = "success" -> "Table created successfully"
              [] outcome = "failure" -> "Failed to create table"
              [] outcome = "raises" -> "Error creating table")
      [] op = "tableExists" ->
           (CASE outcome = "success" -> "Table existence checked"
              [] outcome = "failure" -> "Failed to check table existence"
              [] outcome = "raises" -> "Error checking table existence")
      [] op = "query" ->
           (CASE outcome = "success" -> "Query executed successfully"
              [] outcome = "failure" -> "Failed to execute query"
              [] outcome = "raises" -> "Error executing query")

\* a variant in which every call fills and returns an object of its own
SetResponseFresh(objects, statusCode, message, error, data) ==
    [objects |-> Append(objects,
                        [ResponseLiteral EXCEPT
                           !.statusCode = statusCode, !.message = message,
                           !.error = error, !.data = data]),
     ref |-> Len(objects) + 1]

\* setResponse: assigns the fields of `this` and returns `this`
SetResponse(objects, statusCode, message, error, data) ==
    [objects |-> [objects EXCEPT
                    ![ResponseObject] =
                        [@ EXCEPT !.statusCode = statusCode,
                                  !.message = message,
                                  !.error = error, !.data = data]],
     ref |-> ResponseObject]

\* response.success(data, message)
ResponseSuccess(objects, data, message) ==
    SetResponse(objects, 200, message, "", data)

\* response.error(message, error), while it is the method
ResponseError(objects, message, error) ==
    SetResponse(objects, 500, message, error, "{}")

\* the TypeError that leaves the operation: nothing is returned
Raised(objects) == [objects |-> objects, ref |-> 0]

\* one operation of the ORM: what it returns, or that it raises
OrmOperation(objects, op, outcome, data) ==
    LET fn == objects[ResponseObject].error = "method"
        responded == Respond(fn, outcome = "success")
    IN CASE responded = "success" ->
              ResponseSuccess(objects,
                              IF op = "createTable" THEN "null" ELSE data,
                              Message(op, outcome))
         [] responded = "error" ->
              ResponseError(objects, Message(op, outcome),
                            IF outcome = "failure" THEN "adapter error"
                            ELSE "exception")
         [] responded = "throws" -> Raised(objects)

OrmInit ==
    /\ EngineInit
    /\ race = NoRace
    /\ qb = NoBuilder
    /\ schemas = NoSchemas
    /\ made = NoMade
    /\ setup = NoSetup
    /\ conns = NoConns
    /\ orm = [on |-> TRUE, objects |-> <<ResponseLiteral>>, calls |-> <<>>]

Ormless == UNCHANGED vars /\ UNCHANGED <<race, qb, schemas, made, setup, conns>>

\* r = await orm[op](...): the caller keeps what was returned, and what it
\* showed when it was returned
OrmCall(op, outcome) ==
    /\ orm.on
    /\ Len(orm.calls) < MaxOrmCalls
    /\ LET data == AdapterData[Len(orm.calls) + 1]
           r == OrmOperation(orm.objects, op, outcome, data)
       IN orm' = [orm EXCEPT
                    !.objects = r.objects,
                    !.calls = Append(orm.calls,
                                     [op |-> op, outcome |-> outcome,
                                      data |-> data, ref |-> r.ref,
                                      first |-> orm.objects[ResponseObject].error
                                                  = "method",
                                      then |-> IF r.ref = 0 THEN ResponseLiteral
                                               ELSE r.objects[r.ref]])]
    /\ Ormless

OrmNext ==
    \E op \in OrmOperations, outcome \in AdapterOutcomes : OrmCall(op, outcome)

OrmSpec == OrmInit /\ [][OrmNext]_orm

TypeOK ==
    /\ files \subseteq Units
    /\ pc \in {"idle", "m_batch", "m_up", "m_insert", "r_read", "r_down",
               "r_delete", "s_down", "s_delete", "f_migrate", "d_validate"}

----------------------------------------------------------------------------
(* Properties *)

RowUnits(rows) == {r.migration : r \in rows}

\* the pending units of an operation: discovered, without a row at its call
PendingAtCall == files \ RowUnits(before)

Events(kind) == {i \in DOMAIN trace : trace[i].ev = kind}

UnitsOf(kind) == {trace[i].m : i \in Events(kind)}

Event(kind, u) == [ev |-> kind, m |-> u]

\* C1: migrate() runs the forward transforms of the pending units in
\* ascending identifier order, the transform of a unit starting only after
\* the rows of all smaller pending units were inserted; each insert directly
\* follows the unit's forward transform; every row it writes carries
\* 1 + max(batch) of the ledger at the call (1 on an empty ledger), the
\* batch it returns; and when nothing fails it applies every pending unit.
C1_MigrateAscendingOneBatch ==
    call = "migrate" =>
        LET nextBatch == 1 + (IF before = {} THEN 0
                              ELSE Max({r.batch : r \in before}))
        IN  /\ \A i \in Events("up") :
                  /\ trace[i].m \in PendingAtCall
                  /\ \A p \in PendingAtCall :
                        p < trace[i].m =>
                            \E j \in 1..(i - 1) : trace[j] = Event("insert", p)
                  /\ \A j \in 1..(i - 1) : trace[j].m < trace[i].m
            /\ \A i \in Events("insert") :
                  i > 1 /\ trace[i - 1] = Event("up", trace[i].m)
            /\ ledger = before \cup {Row(u, nextBatch) : u \in UnitsOf("insert")}
            /\ (pc = "idle" /\ result.message = "Executed") =>
                  /\ result.batch = nextBatch
                  /\ Range(result.done) = UnitsOf("insert")
                  /\ result.success => UnitsOf("insert") = PendingAtCall

C1_Witness ==
    /\ call = "migrate"
    /\ pc = "idle"
    /\ before # {}
    /\ result.success
    /\ Len(result.done) >= 2
    /\ result.batch = 2

\* C2: when the forward transform of a pending unit raises in migrate(), no
\* row is inserted for the unit, no later forward transform runs, the later
\* pending units stay without a row, and the result is unsuccessful, lists
\* exactly the pending units before the failing one, in order, and carries
\* the one captured {identifier, error}.
C2_UpRaiseStopsMigrate ==
    (/\ call = "migrate"
     /\ pc = "idle"
     /\ \E e \in Range(result.errors) : e.error = "raised") =>
        LET f == result.errors[1].migration
        IN  /\ result.errors = <<Err(f, "raised")>>
            /\ f \notin RowUnits(ledger)
            /\ Len(trace) >= 2
            /\ trace[Len(trace) - 1] = Event("up", f)
            /\ trace[Len(trace)] = Event("up raised", f)
            /\ \A i \in DOMAIN trace : trace[i].m <= f
            /\ \A p \in PendingAtCall : p >= f => p \notin RowUnits(ledger)
            /\ ~result.success
            /\ result.done = SortAsc({p \in PendingAtCall : p < f})

C2_Witness ==
    /\ call = "migrate"
    /\ pc = "idle"
    /\ result.errors = <<Err(2, "raised")>>
    /\ result.done = <<1>>
    /\ 3 \in PendingAtCall

BatchAtCall ==
    IF arg # NoBatch THEN arg
    ELSE IF before = {} THEN 0
    ELSE Max({r.batch : r \in before})

SelectedAtCall == {r.migration : r \in {x \in before : x.batch = BatchAtCall}}

\* C4: a rollback() called directly after a migrate() that applied a
\* non-empty set U, every transform and ledger operation succeeding, runs the
\* backward transform of exactly the units of U, once each, deletes exactly
\* their rows and leaves every other row as it was; status() then reports
\* every unit of U pending.
C4_RollbackUndoesLastMigrate ==
    (/\ call = "rollback"
     /\ arg = NoBatch
     /\ pc = "idle"
     /\ prev.migrated
     /\ prev.done # <<>>
     /\ ~ioFail
     /\ result.errors = <<>>) =>
        LET U == Range(prev.done)
        IN  /\ UnitsOf("down") = U
            /\ Cardinality(Events("down")) = Cardinality(U)
            /\ UnitsOf("delete") = U
            /\ Range(result.done) = U
            /\ ledger = {r \in before : r.migration \notin U}
            /\ \A u \in U : u \in files /\ StatusOf(u, ledger) = "pending"

C4_Witness ==
    /\ call = "rollback"
    /\ arg = NoBatch
    /\ pc = "idle"
    /\ prev.migrated
    /\ Len(prev.done) >= 2
    /\ ~ioFail
    /\ result.success
    /\ Len(result.done) >= 2
    /\ ledger # {}

RollbackSelects(whole) ==
    call = "rollback" =>
        /\ \A i \in DOMAIN trace : trace[i].m \in SelectedAtCall
        /\ ledger \subseteq before
        /\ \A r \in before : r.batch # BatchAtCall => r \in ledger
        /\ (pc = "idle" /\ whole /\ result.errors = <<>>) =>
              /\ UnitsOf("down") = SelectedAtCall
              /\ Range(result.done) = SelectedAtCall
              /\ ledger = {r \in before : r.batch # BatchAtCall}
        /\ (pc = "idle" /\ whole /\ arg = NoBatch /\ before = {}) =>
              /\ result = NoRollback
              /\ trace = <<>>

\* C6: rollback(b) works on exactly the rows of batch b, and rollback() on
\* exactly the rows of max(batch): it loads and runs units of those rows
\* only, never changes a row of another batch, and, unless it returns a
\* failure, has run the backward transform of each of them and deleted each
\* of them; on an empty ledger rollback() returns the no-op success and runs
\* nothing.
C6_RollbackSelectsOneBatch == RollbackSelects(result.error = "none")

\* C6, the reads of the call answering: the same selection, for the calls
\* none of whose reads of the ledger was answered by a failure.
C6_SelectsOneBatchWhenRead == RollbackSelects(~ioFail)

\* rollback() has returned the no-op success over a ledger that holds rows
C6_Witness ==
    /\ call = "rollback"
    /\ arg = NoBatch
    /\ pc = "idle"
    /\ result = NoRollback
    /\ before # {}
    /\ ledger = before

\* What reset() attempts and leaves, `whole` saying which returns are held
\* to it
ResetAttempts(whole) ==
    (call = "reset" /\ pc = "idle") =>
        /\ (whole /\ before # {}) => result.message = "Reset"
        /\ result.message = "Reset" =>
              LET failed == {e.migration : e \in Range(result.errors)}
                  batchOf(u) == (CHOOSE r \in before : r.migration = u).batch
              IN  /\ {trace[i].m : i \in DOMAIN trace} = RowUnits(before)
                  /\ \A i \in DOMAIN trace : \A j \in 1..(i - 1) :
                        \/ batchOf(trace[j].m) > batchOf(trace[i].m)
                        \/ /\ batchOf(trace[j].m) = batchOf(trace[i].m)
                           /\ trace[j].m >= trace[i].m
                  /\ failed = RowUnits(before) \ UnitsOf("delete")
                  /\ Len(result.errors) = Cardinality(failed)
                  /\ Range(result.done) = UnitsOf("delete")
                  /\ ledger = {r \in before : r.migration \in failed}
                  /\ result.success <=> result.errors = <<>>

\* C7: a reset() that returns a success or a list of failures has attempted
\* every row of the ledger, most recent batch first and descending
\* identifier within a batch, also after failures; afterwards the ledger
\* holds exactly the rows of the units whose rollback failed, the result
\* lists exactly those units as errors and the others as reset, and it is
\* unsuccessful exactly when there is an error.
C7_ResetAttemptsEveryRow == ResetAttempts(result.error = "none")

\* C7, the read answering: the same pass, for the calls whose read of the
\* ledger was not answered by a failure.
C7_AttemptsEveryRowWhenRead == ResetAttempts(~ioFail)

\* reset() has returned the no-op success over a ledger that holds rows
C7_Witness ==
    /\ call = "reset"
    /\ pc = "idle"
    /\ result = NoReset
    /\ before # {}
    /\ ledger = before

FailureEvents ==
    {"no up", "up raised", "insert failed", "no down", "down raised",
     "delete failed"}

MigrateEvents == {"no up", "up", "up raised", "insert", "insert failed"}

\* C8: refresh() runs reset() and then migrate(): once a backward step of
\* its reset() has failed no forward transform runs, no row is inserted and
\* the result is that failure of reset(); and a refresh() that reports
\* success has re-applied every discovered unit in ascending identifier
\* order under batch 1.
C8_RefreshResetsThenMigratesAll ==
    call = "refresh" =>
        /\ (\E i \in DOMAIN trace :
                trace[i].ev \in {"no down", "down raised", "delete failed"}) =>
              /\ \A i \in DOMAIN trace : trace[i].ev \notin MigrateEvents
              /\ RowUnits(ledger) \subseteq RowUnits(before)
              /\ pc \in {"idle", "s_down", "s_delete"}
              /\ pc = "idle" => result.of = "reset" /\ ~result.success
        /\ (pc = "idle" /\ result.of = "refresh") =>
              /\ result.done = SortAsc(files)
              /\ ledger = {Row(u, 1) : u \in files}
              /\ \A i, j \in Events("up") : i < j => trace[i].m < trace[j].m

\* refresh() has reported success over rows its reset() never removed
C8_Witness ==
    /\ call = "refresh"
    /\ pc = "idle"
    /\ result.of = "refresh"
    /\ before # {}
    /\ before \subseteq ledger

\* C9: a migrate() that directly follows a successful migrate(), no file
\* having been discovered in between, runs no forward transform and changes
\* no row, and, its read of the ledger having succeeded, returns the success
\* "No pending migrations" with nothing executed.
C9_SecondMigrateIsNoOp ==
    (call = "migrate" /\ prev.migrated) =>
        /\ pc = "idle"
        /\ trace = <<>>
        /\ ledger = before
        /\ ~ioFail => result = NoPending
        /\ ioFail => ~result.success /\ result.done = <<>>

C9_Witness ==
    /\ call = "migrate"
    /\ pc = "idle"
    /\ prev.migrated
    /\ Len(prev.done) >= 2
    /\ ledger # {}
    /\ result = NoPending

StatusAgrees(whole) ==
    (call = "status" /\ pc = "idle" /\ result.success /\ whole) =>
        LET rep == result.migrations
            reported(st) == {i \in DOMAIN rep : rep[i].status = st}
        IN  /\ [i \in DOMAIN rep |-> rep[i].migration] = SortAsc(files)
            /\ \A i \in DOMAIN rep :
                  /\ rep[i].status = "executed"
                        <=> rep[i].migration \in RowUnits(ledger)
                  /\ rep[i].status = "executed"
                        => Row(rep[i].migration, rep[i].batch) \in ledger
                  /\ rep[i].status \in {"executed", "pending"}
            /\ result.summary.total = Cardinality(files)
            /\ result.summary.executed = Cardinality(reported("executed"))
            /\ result.summary.pending = Cardinality(reported("pending"))
            /\ result.summary.pending >= 0

\* C11: a successful status() lists every discovered file once, executed
\* with the batch of its row exactly when it has a row and pending
\* otherwise, and its totals agree with the list: total is the number of
\* files, executed the number listed executed, pending the number listed
\* pending and never negative, also when the ledger holds rows of files
\* that are no longer there.
C11_StatusAgreesWithRows == StatusAgrees(TRUE)

\* C11, every row having its file: the same report, for the ledgers all of
\* whose rows belong to discovered files.
C11_StatusAgreesWithoutOrphans == StatusAgrees(RowUnits(ledger) \subseteq files)

\* status() has counted the row of a deleted file: pending is negative
C11_Witness ==
    /\ call = "status"
    /\ pc = "idle"
    /\ result.success
    /\ ~(RowUnits(ledger) \subseteq files)
    /\ result.summary.pending < 0

\* C12: dryRun() loads the pending units of its call, in ascending order
\* and each once, runs no transform and attempts no write, leaves the
\* ledger as it was; its result names exactly the pending units, reports a
\* unit valid exactly when the unit loaded exports both up and down, and
\* sets allValid exactly when every pending unit is valid.
C12_DryRunValidatesPending ==
    call = "dryRun" =>
        /\ ledger = before
        /\ RowUnits(ledger) = applied
        /\ \A i \in DOMAIN trace : trace[i].ev = "load"
        /\ \A i \in DOMAIN trace : i <= Len(SortAsc(PendingAtCall))
                                   /\ trace[i].m = SortAsc(PendingAtCall)[i]
        /\ (pc = "idle" /\ result.success) =>
              LET val == result.validations
              IN  /\ result.pendingMigrations = SortAsc(PendingAtCall)
                  /\ Len(trace) = Len(result.pendingMigrations)
                  /\ [i \in DOMAIN val |-> val[i].migration]
                        = result.pendingMigrations
                  /\ \A i \in DOMAIN val :
                        val[i].valid <=> trace[i].up /\ trace[i].down
                  /\ result.allValid <=> \A i \in DOMAIN val : val[i].valid

C12_Witness ==
    /\ call = "dryRun"
    /\ pc = "idle"
    /\ result.success
    /\ ledger # {}
    /\ Len(result.validations) = 2
    /\ result.validations[1].valid
    /\ ~result.validations[2].valid
    /\ ~trace[2].down
    /\ ~result.allValid

RaceUpsOf(m) == {i \in DOMAIN race.ups : race.ups[i].m = m}

\* the two invocations have read the same pending units and the same
\* MAX(batch), and both have returned
RaceSameReads ==
    /\ \A p \in Procs : race.inv[p].pc = "done"
    /\ race.inv["A"].pending = race.inv["B"].pending
    /\ race.inv["A"].pending # <<>>
    /\ race.inv["A"].batch = race.inv["B"].batch

----------------------------------------------------------------------------
(* Properties of the compiled statements.                                  *)

\* the parameter markers of a text, in occurrence order
Markers(sql) == SelectSeq(sql, LAMBDA t : t.k = "mark")

Numbers(sql) == [i \in 1 .. Len(Markers(sql)) |-> Markers(sql)[i].n]

Numbered(b) == b.databaseType \in {Some("postgresql"), Some("snowflake")}

UpTo(k) == [i \in 1 .. k |-> i]

KindIs(kind) == qb.out.ok /\ qb.b.queryType = Some(kind)

\* the WHERE clause of a text: what follows the keyword WHERE, up to the
\* next clause keyword
ClauseEnds == {Kw("GROUP BY"), Kw("HAVING"), Kw("ORDER BY"), Kw("LIMIT")}

IndexOf(sql, tok) ==
    IF \E i \in 1 .. Len(sql) : sql[i] = tok
    THEN Min({i \in 1 .. Len(sql) : sql[i] = tok}) ELSE 0

WhereText(sql) ==
    LET w == IndexOf(sql, Kw("WHERE"))
        ends == {i \in w + 1 .. Len(sql) : sql[i] \in ClauseEnds}
        e == IF ends = {} THEN Len(sql) + 1 ELSE Min(ends)
    IN  IF w = 0 THEN <<>> ELSE SubSeq(sql, w + 1, e - 1)

\* what precedes the keyword WHERE
HeadText(sql) ==
    LET w == IndexOf(sql, Kw("WHERE"))
    IN  IF w = 0 THEN sql ELSE SubSeq(sql, 1, w - 1)

\* C14: under postgresql and snowflake the markers of a compiled statement
\* are numbered 1, 2, ..., k in order of occurrence over the whole
\* statement, an UPDATE with SET and WHERE and a WHERE with IN lists
\* included.
C14_MarkersNumberedInOrder ==
    (qb.out.ok /\ Numbered(qb.b)) =>
        Numbers(qb.out.sql) = UpTo(Len(Markers(qb.out.sql)))

\* C14, as far as it holds: the markers are numbered 1, 2, ... in order
\* within the SET clause and within the WHERE clause, each from 1, so over
\* the whole statement when it is not an UPDATE with conditions that take
\* a marker.
C14_NumberedWithinEachClause ==
    (qb.out.ok /\ Numbered(qb.b)) =>
        /\ Numbers(HeadText(qb.out.sql))
             = UpTo(Len(Markers(HeadText(qb.out.sql))))
        /\ Numbers(WhereText(qb.out.sql))
             = UpTo(Len(Markers(WhereText(qb.out.sql))))
        /\ (~KindIs("UPDATE") \/ Markers(WhereText(qb.out.sql)) = <<>>) =>
              Numbers(qb.out.sql) = UpTo(Len(Markers(qb.out.sql)))

C14_Witness ==
    /\ KindIs("UPDATE")
    /\ qb.b.databaseType = Some("postgresql")
    /\ Len(qb.b.updateData[1]) = 2
    /\ Len(qb.b.whereConditions) = 2
    /\ qb.b.whereConditions[1].operator = "IN"
    /\ Numbers(qb.out.sql) = <<1, 2, 1, 2, 3>>

\* the values the markers of the WHERE clause stand for, in the order of
\* the markers: those of every condition that is neither IS NULL nor IS NOT
\* NULL, an IN list giving one per element
WhereValues(b) ==
    Flatten([i \in 1 .. Len(b.whereConditions) |-> b.whereConditions[i].value])

\* the values the markers of the statement that toSQL() compiles stand
\* for, in the order of the markers
MarkedValues(b) ==
    CASE b.queryType = Some("INSERT") -> Values(b.insertData[1])
      [] b.queryType = Some("UPDATE") ->
             Values(b.updateData[1]) \o WhereValues(b)
      [] OTHER -> WhereValues(b)

\* C15: a compiled statement has as many markers as parameters and its
\* k-th marker stands for its k-th parameter, also with HAVING conditions,
\* with IS NULL and IS NOT NULL conditions, and in whatever order where()
\* and having() were called.
C15_MarkersMatchParams ==
    qb.out.ok =>
        /\ Len(Markers(qb.out.sql)) = Len(qb.out.params)
        /\ qb.out.params = MarkedValues(qb.b)

\* C15, as far as it holds: when having() was not called, or the statement
\* is an INSERT, markers and parameters agree in number and in order, and
\* IS NULL and IS NOT NULL conditions give neither.
C15_MarkersMatchParamsWithoutHaving ==
    (qb.out.ok /\ (qb.b.havingConditions = <<>> \/ KindIs("INSERT"))) =>
        /\ Len(Markers(qb.out.sql)) = Len(qb.out.params)
        /\ qb.out.params = MarkedValues(qb.b)

C15_Witness ==
    /\ KindIs("SELECT")
    /\ Len(qb.b.havingConditions) = 1
    /\ Len(qb.b.whereConditions) = 1
    /\ Len(Markers(qb.out.sql)) = 1
    /\ Len(qb.out.params) = 2
    /\ qb.out.params[1] = qb.b.havingConditions[1].value[1]
    /\ qb.out.params[1] # qb.b.whereConditions[1].value[1]

\* the names written in a text, in order
Names(text) ==
    LET ids == SelectSeq(text, LAMBDA t : t.k = "id")
    IN  [i \in 1 .. Len(ids) |-> ids[i].s]

\* the SET clause of an UPDATE: what follows the keyword SET, up to WHERE
SetText(sql) ==
    LET h == HeadText(sql)
        k == IndexOf(h, Kw("SET"))
    IN  IF k = 0 THEN <<>> ELSE SubSeq(h, k + 1, Len(h))

\* each name of a SET clause is followed by = and a marker
Parameterized(text) ==
    \A i \in 1 .. Len(text) :
        text[i].k = "id" =>
            /\ i + 2 <= Len(text)
            /\ text[i + 1] = Op("=")
            /\ text[i + 2].k = "mark"

CondFields(b) ==
    [i \in 1 .. Len(b.whereConditions) |-> b.whereConditions[i].field]

UpdateCompiles(whole) ==
    (KindIs("UPDATE") /\ whole) =>
        /\ Names(SetText(qb.out.sql)) = Keys(qb.b.updateData[1])
        /\ Parameterized(SetText(qb.out.sql))
        /\ Names(WhereText(qb.out.sql)) = CondFields(qb.b)
        /\ qb.out.params = Values(qb.b.updateData[1]) \o WhereValues(qb.b)

\* C16: an UPDATE compiles to a SET clause with the payload fields in
\* payload order, each with a marker, then the WHERE conditions in their
\* recorded order; its parameters are the update values in payload order,
\* then the where values in where order, and nothing else.
C16_UpdateParamsAreValuesThenWhere == UpdateCompiles(TRUE)

\* C16, as far as it holds: the same for a builder on which having() was
\* not called.
C16_UpdateParamsWithoutHaving == UpdateCompiles(qb.b.havingConditions = <<>>)

C16_Witness ==
    /\ KindIs("UPDATE")
    /\ qb.b.databaseType = Some("mysql")
    /\ Len(qb.b.updateData[1]) = 1
    /\ Len(qb.b.whereConditions) = 1
    /\ Len(qb.b.havingConditions) = 1
    /\ Len(Markers(qb.out.sql)) = 2
    /\ Len(qb.out.params) = 3

Conjunctions == {Kw("AND"), Kw("OR")}

\* the pieces of a WHERE clause between its conjunctions
RECURSIVE Split(_)
Split(text) ==
    LET seps == {i \in 1 .. Len(text) : text[i] \in Conjunctions}
    IN  IF seps = {} THEN <<text>>
        ELSE <<SubSeq(text, 1, Min(seps) - 1)>>
               \o Split(SubSeq(text, Min(seps) + 1, Len(text)))

\* the piece of the compiled WHERE clause at position j
CondText(j) == Split(WhereText(qb.out.sql))[j]

\* a is what is left of c after dropping some of its elements
RECURSIVE IsSubseq(_, _)
IsSubseq(a, c) ==
    IF a = <<>> THEN TRUE
    ELSE IF c = <<>> THEN FALSE
    ELSE IF a[1] = c[1] THEN IsSubseq(Tail(a), Tail(c))
    ELSE IsSubseq(a, Tail(c))

ValuesOf(conds) == Flatten([i \in 1 .. Len(conds) |-> conds[i].value])

\* the values of condition j stand in params from position off + 1 on, after
\* the values of the conditions before it and before those of the later ones
StandsAt(params, conds, j, off) ==
    LET n == Len(conds[j].value)
    IN  /\ off + n <= Len(params)
        /\ SubSeq(params, off + 1, off + n) = conds[j].value
        /\ IsSubseq(ValuesOf(SubSeq(conds, 1, j - 1)), SubSeq(params, 1, off))
        /\ IsSubseq(ValuesOf(SubSeq(conds, j + 1, Len(conds))),
                    SubSeq(params, off + n + 1, Len(params)))

\* the number of parameters in front of those of the WHERE clause
Base(b) == IF b.queryType = Some("UPDATE") THEN Len(b.updateData[1]) ELSE 0

HasWhere == KindIs("SELECT") \/ KindIs("UPDATE") \/ KindIs("DELETE")

InConds(b) ==
    {j \in 1 .. Len(b.whereConditions) :
         b.whereConditions[j].operator \in {"IN", "NOT IN"}}

\* C17: a condition of whereIn or whereNotIn is written at its position in
\* the WHERE clause as field, IN or NOT IN, and a parenthesis holding one
\* marker per element of the list; the elements stand in the parameters
\* in list order, after the values of the conditions before it and before
\* those of the conditions after it, in the place the earlier conditions'
\* values leave when nothing but where conditions gave parameters.
C17_InListsExpand ==
    HasWhere =>
        \A j \in InConds(qb.b) :
            LET c == qb.b.whereConditions[j]
                n == Len(c.value)
                t == CondText(j)
            IN  /\ Len(Split(WhereText(qb.out.sql))) = Len(qb.b.whereConditions)
                /\ Len(t) = 4 + n + (IF n > 1 THEN n - 1 ELSE 0)
                /\ SubSeq(t, 1, 3) = <<Id(c.field), Op(c.operator), Kw("(")>>
                /\ t[Len(t)] = Kw(")")
                /\ \A i \in 4 .. Len(t) - 1 :
                      IF i % 2 = 0 THEN t[i].k = "mark" ELSE t[i] = Kw(",")
                /\ \E off \in 0 .. Len(qb.out.params) :
                      StandsAt(qb.out.params, qb.b.whereConditions, j, off)
                /\ qb.b.havingConditions = <<>> =>
                      StandsAt(qb.out.params, qb.b.whereConditions, j,
                               Base(qb.b) + Len(ValuesOf(SubSeq(
                                   qb.b.whereConditions, 1, j - 1))))

C17_Witness ==
    /\ KindIs("UPDATE")
    /\ Len(qb.b.updateData[1]) = 2
    /\ Len(qb.b.whereConditions) = 2
    /\ qb.b.whereConditions[1].operator = ">="
    /\ qb.b.whereConditions[2].operator = "NOT IN"
    /\ Len(Markers(CondText(2))) = 2
    /\ SubSeq(qb.out.params, 4, 5) = <<25, 18>>
    /\ qb.out.params[3] = 25

\* the conjunctions written in a text, in order
ConjunctionsIn(text) ==
    LET cs == SelectSeq(text, LAMBDA t : t \in Conjunctions)
    IN  [i \in 1 .. Len(cs) |-> cs[i].s]

\* what was compiled writes the recorded conditions one piece each, in
\* their order, the first without a conjunction and each later one behind
\* the conjunction recorded with it
RendersRecorded ==
    (HasWhere /\ qb.b.whereConditions # <<>>) =>
        LET conds == qb.b.whereConditions
            text == WhereText(qb.out.sql)
        IN  /\ Len(Split(text)) = Len(conds)
            /\ \A j \in 1 .. Len(conds) :
                  /\ Len(CondText(j)) >= 2
                  /\ SubSeq(CondText(j), 1, 2)
                       = <<Id(conds[j].field), Op(conds[j].operator)>>
                  /\ Len(Markers(CondText(j)))
                       = IF conds[j].operator \in {"IS NULL", "IS NOT NULL"}
                         THEN 0 ELSE Len(conds[j].value)
            /\ text[1] \notin Conjunctions
            /\ ConjunctionsIn(text)
                 = [i \in 1 .. Len(conds) - 1 |-> conds[i + 1].type]

\* a call leaves the recorded conditions as they are or records one more
\* behind them
RecordsBehind ==
    LET old == qb.b.whereConditions
        new == qb'.b.whereConditions
    IN  \/ new = old
        \/ Len(new) = Len(old) + 1 /\ SubSeq(new, 1, Len(old)) = old

\* C18: the WHERE clause writes the recorded conditions in the order of the
\* calls that recorded them, one piece per condition, none reordered,
\* merged or dropped; the first piece has no conjunction in front of it,
\* whatever the conjunction recorded with it, and every later piece is
\* preceded by the conjunction recorded with its own condition.
C18_WhereKeepsCallOrder == [][RecordsBehind]_qb /\ []RendersRecorded

C18_Witness ==
    /\ KindIs("SELECT")
    /\ Len(qb.b.whereConditions) = 2
    /\ qb.b.whereConditions[1].type = "OR"
    /\ qb.b.whereConditions[2].type = "AND"
    /\ qb.b.whereConditions[1].field = qb.b.whereConditions[2].field
    /\ qb.b.whereConditions[2].operator = "IS NULL"
    /\ ConjunctionsIn(WhereText(qb.out.sql)) = <<"AND">>

ClauseKeywords ==
    {Kw("SELECT"), Kw("FROM"), Kw("JOIN"), Kw("WHERE"), Kw("GROUP BY"),
     Kw("HAVING"), Kw("ORDER BY"), Kw("LIMIT"), Kw("OFFSET")}

\* the clause keywords of a text, in order of occurrence
ClausesIn(sql) ==
    LET ks == SelectSeq(sql, LAMBDA t : t \in ClauseKeywords)
    IN  [i \in 1 .. Len(ks) |-> ks[i].s]

If(set, clause) == IF set THEN <<clause>> ELSE <<>>

\* the kinds of the joins of a text, in order of occurrence
JoinsIn(sql) ==
    LET js == SelectSeq(sql, LAMBDA t : t \in {Kw(k) : k \in JoinKinds})
    IN  [i \in 1 .. Len(js) |-> js[i].s]

\* the statement the claim gives as its example
Example(type) ==
    ToSQL(Limit(OrderBy(Where(Select(Table(Create(type), "users"),
                                     <<"id", "name">>),
                              "age", ">=", 18),
                        "name", "ASC"),
                "10"))

ExampleText(marker) ==
    <<Kw("SELECT"), Id("id"), Kw(","), Id("name"), Kw("FROM"), Id("users"),
      Kw("WHERE"), Id("age"), Op(">="), marker, Kw("ORDER BY"), Id("name"),
      Kw("ASC"), Kw("LIMIT"), Lit(10)>>

\* a compiled SELECT is SELECT fields FROM table, the joins in call order,
\* then the clauses whose state was set, in the fixed order, OFFSET being
\* there when `offsetShown`; and the example compiles as stated
SelectShape(offsetShown) ==
    /\ KindIs("SELECT") =>
          LET sql == qb.out.sql
              b == qb.b
              from == IndexOf(sql, Kw("FROM"))
          IN  /\ sql[1] = Kw("SELECT")
              /\ Names(SubSeq(sql, 2, from - 1)) = b.selectFields
              /\ sql[from + 1] = Id(b.tableName[1])
              /\ JoinsIn(sql) = [i \in 1 .. Len(b.joinClauses) |->
                                     b.joinClauses[i].type]
              /\ ClausesIn(sql)
                   = <<"SELECT", "FROM">>
                       \o [i \in 1 .. Len(b.joinClauses) |-> "JOIN"]
                       \o If(b.whereConditions # <<>>, "WHERE")
                       \o If(b.groupByFields # <<>>, "GROUP BY")
                       \o If(b.havingConditions # <<>>, "HAVING")
                       \o If(b.orderByFields # <<>>, "ORDER BY")
                       \o If(b.limitValue # None, "LIMIT")
                       \o If(offsetShown, "OFFSET")
    /\ Example("mysql") = Compiled(ExampleText(Tok("mark", "?", 0)), <<18>>)
    /\ Example("postgresql")
         = Compiled(ExampleText(Tok("mark", "$", 1)), <<18>>)

\* C19: a compiled SELECT is SELECT fields FROM table, then the JOIN
\* clauses in call order, then WHERE, GROUP BY, HAVING, ORDER BY, LIMIT and
\* OFFSET in that order, each there exactly when its builder state was
\* set, OFFSET whenever offset(n) was called; the example statement
\* compiles to the stated text and parameters under mysql and postgresql.
C19_SelectClausesAsSet == SelectShape(qb.b.offsetValue # None)

\* C19, as far as it holds: the same, with OFFSET there exactly when both
\* offset(n) and limit(n) were called.
C19_SelectClausesOffsetInsideLimit ==
    SelectShape(qb.b.offsetValue # None /\ qb.b.limitValue # None)

C19_Witness ==
    /\ KindIs("SELECT")
    /\ qb.b.offsetValue = Some(Whole(5))
    /\ qb.b.limitValue = None
    /\ Len(qb.b.joinClauses) = 2
    /\ qb.b.orderByFields # <<>>
    /\ IndexOf(qb.out.sql, Kw("OFFSET")) = 0

\* what a text holds between its k-th opening parenthesis and the closing
\* one after it
Parenthesis(sql, k) ==
    LET opens == {i \in 1 .. Len(sql) : sql[i] = Kw("(")}
        open == CHOOSE i \in opens :
                    Cardinality({j \in opens : j <= i}) = k
        close == Min({i \in open + 1 .. Len(sql) : sql[i] = Kw(")")})
    IN  SubSeq(sql, open + 1, close - 1)

\* C20: insert(payload) compiles to INSERT INTO table, the payload's fields
\* in the payload's key order, and one marker per field in the same order;
\* its parameters are the payload's values in that key order and nothing
\* else, whatever where() and having() calls went before.
C20_InsertFollowsPayload ==
    KindIs("INSERT") =>
        LET sql == qb.out.sql
            data == qb.b.insertData[1]
            fields == Parenthesis(sql, 1)
            marks == Parenthesis(sql, 2)
        IN  /\ SubSeq(sql, 1, 2) = <<Kw("INSERT INTO"), Id(qb.b.tableName[1])>>
            /\ Names(fields) = [i \in 1 .. Len(data) |-> data[i].field]
            /\ Len(fields) = 2 * Len(data) - 1
            /\ Len(Markers(marks)) = Len(data)
            /\ Len(marks) = 2 * Len(data) - 1
            /\ Len(Markers(sql)) = Len(data)
            /\ Numbered(qb.b) => Numbers(marks) = UpTo(Len(data))
            /\ qb.out.params = [i \in 1 .. Len(data) |-> data[i].value]

C20_Witness ==
    /\ KindIs("INSERT")
    /\ qb.b.databaseType = Some("mysql")
    /\ qb.b.insertData[1] = Payload(<<"name", "age">>, <<18, 25>>)
    /\ Len(qb.b.whereConditions) = 1
    /\ Len(qb.b.havingConditions) = 1
    /\ qb.b.params = <<25, 25>>
    /\ Names(Parenthesis(qb.out.sql, 1)) = <<"name", "age">>
    /\ Parenthesis(qb.out.sql, 2)
         = <<Tok("mark", "?", 0), Kw(","), Tok("mark", "?", 0)>>
    /\ qb.out.params = <<18, 25>>

----------------------------------------------------------------------------
(* Properties of the terminal calls.                                       *)

\* the step is a call of toSQL()
IsToSQL == qb'.n = qb.n + 1 /\ qb'.last = "toSQL"

HeldParams ==
    IF qb.held.shared THEN qb.b.params ELSE qb.held.was.params

\* C22: once a result was returned, later calls on the builder leave its
\* text and the contents of its parameter list as they were returned.
C22_ReturnedResultUnchanged ==
    qb.held.set => HeldParams = qb.held.was.params

\* C22, as far as it holds: the parameter list of a returned INSERT or
\* UPDATE, which is an array of its own, stays as it was returned whatever
\* is called on the builder afterwards.
C22_OwnArrayUnchanged ==
    (qb.held.set /\ qb.b.queryType \in {Some("INSERT"), Some("UPDATE")})
        => HeldParams = qb.held.was.params

C22_Witness ==
    /\ qb.held.set
    /\ qb.b.queryType = Some("SELECT")
    /\ qb.held.was.params = <<>>
    /\ qb.last = "call"
    /\ HeldParams = <<18>>

\* first() gives what toSQL() gives with limit 1 and count(field) what it
\* gives with the select list replaced by the count expression; the
\* builder after first() is `afterFirst`, after count() the one before it
\* with the select list replaced
TerminalForms(afterFirst) ==
    /\ qb.last = "first" =>
          /\ qb.out = ToSQL([qb.before EXCEPT !.limitValue = Some(Whole(1))])
          /\ qb.b = afterFirst
    /\ qb.last = "count" =>
          /\ qb.out = ToSQL([qb.before EXCEPT
                                !.selectFields = <<"COUNT(*) as count">>])
          /\ qb.b = [qb.before EXCEPT
                        !.selectFields = <<"COUNT(*) as count">>]

\* C27: first() gives the result of toSQL() with limit 1 and count(field)
\* that of toSQL() with the select list replaced by one count expression;
\* apart from that replacement neither changes the builder, so the limit
\* recorded before first() is the limit a later toSQL() writes.
C27_TerminalFormsKeepBuilder == TerminalForms(qb.before)

\* C27, as far as it holds: the same, except that first() leaves the
\* builder with limit 1 in place of the limit recorded before it.
C27_FirstOverwritesLimit ==
    TerminalForms([qb.before EXCEPT !.limitValue = Some(Whole(1))])

C27_Witness ==
    /\ qb.last = "first"
    /\ qb.out.ok
    /\ qb.before.limitValue = Some(Whole(10))
    /\ qb.b.limitValue = Some(Whole(1))
    /\ ToSQL(qb.b) # ToSQL(qb.before)

\* the token a text carries behind a keyword
Behind(sql, kw) == sql[IndexOf(sql, kw) + 1]

\* an integer literal: digits, with or without a sign
IsIntegerLiteral(t) == t.k = "lit" /\ t.s = ""

\* a SELECT with a limit and an offset given by the texts of their arguments
Limited(limit, offset) ==
    ToSQL(Offset(Limit(Select(Table(Create("mysql"), "users"), <<"*">>),
                       limit),
                 offset))

\* the result in `qb.out` is that of the builder as it is now: no call
\* was made since the terminal call that gave it
JustCompiled(kind) == KindIs(kind) /\ qb.last # "call"

\* C29: the values of limit(n) and offset(n) are written into the text as
\* integer literals, whatever n was, and are no parameters.
C29_LimitIsIntegerLiteral ==
    JustCompiled("SELECT") =>
        /\ qb.b.limitValue # None =>
              IsIntegerLiteral(Behind(qb.out.sql, Kw("LIMIT")))
        /\ (qb.b.limitValue # None /\ qb.b.offsetValue # None) =>
              IsIntegerLiteral(Behind(qb.out.sql, Kw("OFFSET")))
        /\ qb.out.params = qb.b.params

\* C29, as far as it holds: the values are written into the text and are no
\* parameters; an argument that starts with an integer gives that integer,
\* what follows it dropped, and one that starts with none gives the text
\* NaN.
C29_LimitIsParsedAndInlined ==
    /\ JustCompiled("SELECT") =>
          /\ qb.b.limitValue # None =>
                Behind(qb.out.sql, Kw("LIMIT")) = NumText(qb.b.limitValue[1])
          /\ (qb.b.limitValue # None /\ qb.b.offsetValue # None) =>
                Behind(qb.out.sql, Kw("OFFSET")) = NumText(qb.b.offsetValue[1])
          /\ Len(qb.out.params) = Len(WhereValues(qb.b))
                                    + Len(qb.b.havingConditions)
    /\ Behind(Limited("10", "5").sql, Kw("LIMIT")) = Lit(10)
    /\ Behind(Limited("10", "5").sql, Kw("OFFSET")) = Lit(5)
    /\ Behind(Limited("3.7", "10abc").sql, Kw("LIMIT")) = Lit(3)
    /\ Behind(Limited("3.7", "10abc").sql, Kw("OFFSET")) = Lit(10)
    /\ Behind(Limited("abc", "null").sql, Kw("LIMIT")) = Tok("lit", "NaN", 0)
    /\ Behind(Limited("abc", "null").sql, Kw("OFFSET")) = Tok("lit", "NaN", 0)
    /\ Limited("abc", "null").params = <<>>

C29_Witness ==
    /\ KindIs("SELECT")
    /\ qb.last = "toSQL"
    /\ qb.b.limitValue = Some(NaN)
    /\ qb.b.offsetValue = Some(Whole(5))
    /\ Behind(qb.out.sql, Kw("LIMIT")) = Tok("lit", "NaN", 0)
    /\ Behind(qb.out.sql, Kw("OFFSET")) = Lit(5)

----------------------------------------------------------------------------
(* Properties of toSQL() on a builder that lacks something.                *)

\* toSQL() was the last call and threw: nothing was returned
Failed == qb.last = "toSQL" /\ ~qb.out.ok /\ qb.out.sql = <<>>

\* C23: toSQL() on a builder whose table was never set fails, for every
\* kind of statement, and returns no text.
C23_NoTableFails ==
    (qb.last = "toSQL" /\ qb.b.tableName = None) => Failed

C23_Witness ==
    /\ qb.last = "toSQL"
    /\ qb.b.tableName = None
    /\ qb.b.queryType = Some("DELETE")
    /\ qb.out.ok
    /\ qb.out.sql = <<Kw("DELETE FROM"), Id("null"), Kw("WHERE"), Id("age"),
                      Op(">="), Tok("mark", "?", 0)>>

\* the payload of the statement the builder is set to is absent / empty
PayloadIs(data) ==
    \/ qb.b.queryType = Some("INSERT") /\ qb.b.insertData = data
    \/ qb.b.queryType = Some("UPDATE") /\ qb.b.updateData = data

\* C24: toSQL() of an INSERT or UPDATE whose payload is absent or has no
\* fields fails and returns no text.
C24_NoPayloadFails ==
    (qb.last = "toSQL" /\ (PayloadIs(None) \/ PayloadIs(Some(<<>>))))
        => Failed

C24_Witness ==
    /\ qb.last = "toSQL"
    /\ qb.b.queryType = Some("INSERT")
    /\ qb.b.insertData = Some(<<>>)
    /\ qb.b.tableName # None
    /\ qb.out.ok
    /\ qb.out.sql = <<Kw("INSERT INTO"), Id("users"), Kw("("), Kw(")"),
                      Kw("VALUES"), Kw("("), Kw(")")>>

Recognized == {Some("mysql"), Some("postgresql"), Some("snowflake")}

\* C25: toSQL() fails when no dialect was set and when the dialect set is
\* none of mysql, postgresql, snowflake; no result is returned.
C25_BadDialectFails ==
    (qb.last = "toSQL" /\ qb.b.databaseType \notin Recognized) => Failed

C25_Witness ==
    /\ qb.last = "toSQL"
    /\ qb.b.databaseType = Some("sqlite")
    /\ qb.b.queryType = Some("SELECT")
    /\ qb.b.tableName # None
    /\ qb.out.ok
    /\ Markers(qb.out.sql) = <<Tok("mark", "?", 0)>>

\* what toSQL() needs: a dialect, a kind, and a payload that is not absent
Supplied(b) ==
    /\ b.databaseType # None
    /\ b.queryType # None
    /\ b.queryType = Some("INSERT") => b.insertData # None
    /\ b.queryType = Some("UPDATE") => b.updateData # None

\* C26: a toSQL() that fails leaves the builder as it was and returns
\* nothing; toSQL() fails only while something it needs is missing, and
\* succeeds on the same builder once that was supplied.
C26_FailedCompileChangesNothing ==
    /\ [][(IsToSQL /\ ~qb'.out.ok) =>
              /\ qb'.b = qb.b
              /\ qb'.out.sql = <<>>
              /\ qb'.out.params = <<>>]_qb
    /\ [](qb.last = "toSQL" => (qb.out.ok <=> Supplied(qb.b)))

C26_Witness ==
    /\ qb.last = "toSQL"
    /\ qb.n = 2
    /\ qb.failed = 1
    /\ qb.out.ok
    /\ qb.b.queryType = Some("SELECT")
    /\ qb.b.params # <<>>
    /\ qb.held.was = qb.out

----------------------------------------------------------------------------
(* Properties of the two-argument conditions.                              *)

\* the conditions recorded and the parameters are those of the calls made:
\* each call gave (field, '=', second) and the parameter second, for the
\* calls that `counts` admits
RecordsEquality(counts(_)) ==
    (\A i \in 1 .. Len(qb.given) : counts(qb.given[i])) =>
        /\ Len(qb.b.whereConditions) = Len(qb.given)
        /\ \A i \in 1 .. Len(qb.given) :
              qb.b.whereConditions[i]
                = Cond(qb.given[i].field, "=", <<qb.given[i].second>>,
                       IF qb.given[i].call = "where" THEN "AND" ELSE "OR")
        /\ qb.b.params = [i \in 1 .. Len(qb.given) |-> qb.given[i].second]
        /\ qb.out.ok => qb.out.params = qb.b.params

\* C28: where(field, value) and orWhere(field, value) with two arguments
\* record (field, '=', value) and add value to the parameters, whatever
\* the value, one of the strings '=', '!=', '>', '<', '>=', '<=' included.
C28_TwoArgumentsMeanEquality == RecordsEquality(LAMBDA g : TRUE)

\* C28, as far as it holds: the same for every orWhere call, and for the
\* where calls whose value is none of the six operator strings.
C28_EqualityUnlessOperatorString ==
    RecordsEquality(LAMBDA g :
        g.call = "orWhere" \/ g.second \notin OperatorStrings)

C28_Witness ==
    /\ qb.out.ok
    /\ Len(qb.given) = 2
    /\ qb.given[1] = Given("orWhere", "name", ">=")
    /\ qb.given[2] = Given("where", "name", ">=")
    /\ qb.b.whereConditions[1] = Cond("name", "=", <<">=">>, "OR")
    /\ qb.b.whereConditions[2] = Cond("name", ">=", <<JsNull>>, "AND")
    /\ qb.out.params = <<">=", JsNull>>

\* ---------------------------------------------------------------------
\* Properties of the schema comparison
\* ---------------------------------------------------------------------

Compared == schemas.on /\ schemas.compared

\* a snapshot whose `users` table has both columns and the index
FullSnapshot(schema) ==
    /\ schema # None
    /\ "users" \in DOMAIN schema[1]
    /\ schema[1]["users"].columns # None
    /\ DOMAIN schema[1]["users"].columns[1] = Range(ColumnNames)
    /\ schema[1]["users"].indexes # None
    /\ DOMAIN schema[1]["users"].indexes[1] = Range(IndexNames)

\* C30: comparing a schema snapshot with itself finds nothing: no added or
\* dropped tables, and for no table any added, dropped or modified column
\* or any added or dropped index.
C30_SelfComparisonIsEmpty ==
    (Compared /\ schemas.fromSchema = schemas.toSchema) =>
        /\ Len(schemas.differences.addedTables) = 0
        /\ Len(schemas.differences.droppedTables) = 0
        /\ DOMAIN schemas.differences.modifiedTables = {}
        /\ DOMAIN schemas.differences.addedColumns = {}
        /\ DOMAIN schemas.differences.droppedColumns = {}
        /\ DOMAIN schemas.differences.modifiedColumns = {}
        /\ DOMAIN schemas.differences.addedIndexes = {}
        /\ DOMAIN schemas.differences.droppedIndexes = {}

\* a snapshot with two tables, columns and an index was compared with itself
C30_Witness ==
    /\ Compared
    /\ schemas.fromSchema = schemas.toSchema
    /\ FullSnapshot(schemas.fromSchema)
    /\ "posts" \in DOMAIN schemas.fromSchema[1]

\* the table is in both snapshots
InBoth(table) ==
    /\ schemas.fromSchema # None
    /\ schemas.toSchema # None
    /\ table \in DOMAIN schemas.fromSchema[1]
    /\ table \in DOMAIN schemas.toSchema[1]

\* the index is in the table of the snapshot
HasIndex(schema, table, idx) ==
    /\ schema[1][table].indexes # None
    /\ idx \in DOMAIN schema[1][table].indexes[1]

\* both snapshots have the index in the table, defined differently
IndexChanged(table, idx) ==
    /\ InBoth(table)
    /\ HasIndex(schemas.fromSchema, table, idx)
    /\ HasIndex(schemas.toSchema, table, idx)
    /\ schemas.fromSchema[1][table].indexes[1][idx]
         # schemas.toSchema[1][table].indexes[1][idx]

\* how many entries of the category name `name` under the table, and
\* whether each carries the definition
Entries(category, table, name) ==
    IF table \in DOMAIN category
    THEN {i \in DOMAIN category[table] : category[table][i].name = name}
    ELSE {}

\* C31: an index of the same name in a table of both snapshots whose
\* definition differs is listed once among the added indexes of the table,
\* with the definition of the second snapshot, and once among its dropped
\* indexes, with the definition of the first.
C31_ChangedIndexAddedAndDropped ==
    \A idx \in Range(IndexNames) :
      (Compared /\ IndexChanged("users", idx)) =>
        LET added == schemas.differences.addedIndexes
            dropped == schemas.differences.droppedIndexes
        IN /\ Cardinality(Entries(added, "users", idx)) = 1
           /\ Cardinality(Entries(dropped, "users", idx)) = 1
           /\ \A i \in Entries(added, "users", idx) :
                added["users"][i].definition
                  = schemas.toSchema[1]["users"].indexes[1][idx]
           /\ \A i \in Entries(dropped, "users", idx) :
                dropped["users"][i].definition
                  = schemas.fromSchema[1]["users"].indexes[1][idx]

\* C31, as the comparison behaves: an index named in the table of both
\* snapshots is in neither list, whatever its two definitions are; the
\* lists hold the indexes named on one side only.
C31_IndexesComparedByName ==
    \A idx \in Range(IndexNames) :
      (Compared /\ InBoth("users")) =>
        LET inFrom == HasIndex(schemas.fromSchema, "users", idx)
            inTo == HasIndex(schemas.toSchema, "users", idx)
        IN /\ Cardinality(Entries(schemas.differences.addedIndexes,
                                  "users", idx))
                = IF inTo /\ ~inFrom THEN 1 ELSE 0
           /\ Cardinality(Entries(schemas.differences.droppedIndexes,
                                  "users", idx))
                = IF inFrom /\ ~inTo THEN 1 ELSE 0

\* the index became unique between the two snapshots and they were compared
C31_Witness ==
    /\ Compared
    /\ IndexChanged("users", "idx_email")
    /\ schemas.toSchema[1]["users"].indexes[1]["idx_email"]
         = <<<<"columns", "email">>, <<"unique", "true">>>>

\* the tables of a snapshot and the columns of one of its tables
TablesOf(schema) == DOMAIN OrEmpty(schema)

ColumnsOf(schema, table) == OrEmpty(OrEmpty(schema)[table].columns)

\* what a category lists under a table, and whether it lists nothing twice
EntriesOf(category, table) ==
    IF table \in DOMAIN category THEN Range(category[table]) ELSE {}

ListsOnce(category, table) ==
    table \in DOMAIN category =>
        Len(category[table]) = Cardinality(Range(category[table]))

\* two definitions have the same keys with the same values
DeepEqual(fromDefinition, toDefinition) ==
    Range(fromDefinition) = Range(toDefinition)

\* the categories are exactly what the two snapshots call for, where
\* Same(_, _) says which two definitions of a column count as the same
ExactDifferences(Same(_, _)) ==
    LET from == schemas.fromSchema
        to == schemas.toSchema
        d == schemas.differences
        both == TablesOf(from) \cap TablesOf(to)
    IN /\ Range(d.addedTables) = TablesOf(to) \ TablesOf(from)
       /\ Len(d.addedTables) = Cardinality(Range(d.addedTables))
       /\ Range(d.droppedTables) = TablesOf(from) \ TablesOf(to)
       /\ Len(d.droppedTables) = Cardinality(Range(d.droppedTables))
       /\ DOMAIN d.addedColumns \subseteq both
       /\ DOMAIN d.droppedColumns \subseteq both
       /\ DOMAIN d.modifiedColumns \subseteq both
       /\ \A table \in both :
            LET fromColumns == ColumnsOf(from, table)
                toColumns == ColumnsOf(to, table)
            IN /\ EntriesOf(d.addedColumns, table)
                    = {[name |-> col, definition |-> toColumns[col]] :
                         col \in DOMAIN toColumns \ DOMAIN fromColumns}
               /\ EntriesOf(d.droppedColumns, table)
                    = {[name |-> col, definition |-> fromColumns[col]] :
                         col \in DOMAIN fromColumns \ DOMAIN toColumns}
               /\ EntriesOf(d.modifiedColumns, table)
                    = {[name |-> col, from |-> fromColumns[col],
                        to |-> toColumns[col]] :
                         col \in {c \in DOMAIN fromColumns \cap DOMAIN toColumns :
                                    ~Same(fromColumns[c], toColumns[c])}}
               /\ ListsOnce(d.addedColumns, table)
               /\ ListsOnce(d.droppedColumns, table)
               /\ ListsOnce(d.modifiedColumns, table)

\* C32: the added and dropped tables are exactly the tables of one snapshot
\* only; for a table of both, the added and dropped columns are exactly its
\* columns of one side only, with their definitions, and the modified
\* columns exactly those of both sides whose definitions are not deep-equal,
\* whatever the order of their keys; a column with deep-equal definitions is
\* in no category.
C32_DifferencesExact == Compared => ExactDifferences(DeepEqual)

\* C32, as the comparison behaves: the same, with two definitions of a
\* column the same only when they have the same keys with the same values
\* written in the same order.
C32_DifferencesExactAsWritten ==
    Compared => ExactDifferences(LAMBDA a, b : a = b)

\* the email column has the same keys and values in both snapshots, written
\* in another order, and the snapshots were compared
C32_Witness ==
    /\ Compared
    /\ InBoth("users")
    /\ "email" \in DOMAIN ColumnsOf(schemas.fromSchema, "users")
    /\ "email" \in DOMAIN ColumnsOf(schemas.toSchema, "users")
    /\ ColumnsOf(schemas.fromSchema, "users")["email"]
         = <<<<"type", "string">>, <<"nullable", "false">>>>
    /\ ColumnsOf(schemas.toSchema, "users")["email"]
         = <<<<"nullable", "false">>, <<"type", "string">>>>
    /\ "id" \in DOMAIN ColumnsOf(schemas.toSchema, "users")
    /\ "id" \notin DOMAIN ColumnsOf(schemas.fromSchema, "users")

\* ---------------------------------------------------------------------
\* Properties of create(name)
\* ---------------------------------------------------------------------

\* the calls of create() that wrote their file, in the order they were made
MadeFiles == SelectSeq(made.calls, LAMBDA c : c.success)

\* C33: the identifiers of successive create(name) calls are distinct and
\* strictly increasing in the order of the calls, for any names and also
\* within one clock second; and create() writes no ledger row.
C33_IdentifiersIncrease ==
    made.on =>
        /\ \A i, j \in DOMAIN MadeFiles :
             i < j => /\ MadeFiles[i].fileName # MadeFiles[j].fileName
                      /\ FileLess(MadeFiles[i].fileName, MadeFiles[j].fileName)
        /\ ledger = {}

\* C33, as create() behaves: the identifier starts with the clock second of
\* the call, so calls made in different seconds get distinct identifiers
\* that increase with the calls, and calls made in one second are ordered by
\* their names alone: the same name gives the same identifier; and create()
\* writes no ledger row.
C33_IdentifiersIncreaseAcrossSeconds ==
    made.on =>
        /\ \A i, j \in DOMAIN MadeFiles :
             LET f == MadeFiles[i]
                 g == MadeFiles[j]
                 sameSecond == f.at \div TicksPerSecond
                                 = g.at \div TicksPerSecond
             IN i < j =>
                  /\ ~sameSecond => FileLess(f.fileName, g.fileName)
                  /\ (sameSecond /\ f.name = g.name)
                        => f.fileName = g.fileName
                  /\ sameSecond
                        => (FileLess(f.fileName, g.fileName)
                              <=> TextLess(f.fileName.rest, g.fileName.rest))
        /\ made.dir = {c.fileName : c \in Range(MadeFiles)}
        /\ ledger = {}

\* create('b') and then create('a') wrote their files within one second
C33_Witness ==
    /\ made.on
    /\ Len(MadeFiles) = 2
    /\ MadeFiles[1].name = <<"b">>
    /\ MadeFiles[2].name = <<"a">>
    /\ MadeFiles[1].at \div TicksPerSecond = MadeFiles[2].at \div TicksPerSecond
    /\ MadeFiles[1].at < MadeFiles[2].at

\* ---------------------------------------------------------------------
\* Properties of initialize()
\* ---------------------------------------------------------------------

\* the initialize() calls that issued a CREATE TABLE
Issuing == {i \in DOMAIN setup.calls : setup.calls[i].issued}

\* whether the ledger table existed when the i-th call returned
ThereAfter(i) == setup.calls[i].before \/ setup.calls[i].created

\* C34: initialize() creates the ledger table only when the existence check
\* reported that it does not exist; successive calls issue at most one
\* creation and leave the ledger rows as they were; and after a successful
\* initialize() the ledger table exists.
C34_InitializeIdempotent ==
    setup.on =>
        /\ \A i \in Issuing : setup.calls[i].check = "false"
        /\ Cardinality(Issuing) <= 1
        /\ ledger = {}
        /\ \A i \in DOMAIN setup.calls :
             setup.calls[i].success => ThereAfter(i)

\* C34, as initialize() behaves: a creation is issued only after the check
\* answered that the table does not exist, never while it exists, and at
\* most one creation takes effect; the ledger rows stay as they were; a
\* successful initialize() whose check was answered leaves the table in
\* place, and one whose check failed on the first ORM call of the process
\* reports success and leaves the table as it was, there or not.
C34_InitializeChecksThenCreates ==
    setup.on =>
        /\ \A i \in Issuing : /\ setup.calls[i].check = "false"
                              /\ ~setup.calls[i].before
        /\ Cardinality({i \in Issuing : setup.calls[i].created}) <= 1
        /\ ledger = {}
        /\ \A i \in DOMAIN setup.calls :
             LET c == setup.calls[i]
             IN /\ (c.success /\ c.check \in {"true", "false"})
                     => ThereAfter(i)
                /\ c.check = "{}" => (c.success /\ ~c.issued)
                /\ c.check \in {"none", "throws"} => ~c.success

\* the first ORM call of the process was the existence check of an
\* initialize(), it failed, and initialize() reported success without a table
C34_Witness ==
    /\ setup.on
    /\ Len(setup.calls) >= 1
    /\ setup.calls[1].check = "{}"
    /\ setup.calls[1].success
    /\ ~ThereAfter(1)

\* ---------------------------------------------------------------------
\* Properties of the connections
\* ---------------------------------------------------------------------

\* the j-th finished call began after the i-th had returned a connection for
\* the same configuration, with no cleanup() since
Successive(i, j) ==
    /\ conns.log[i].ok
    /\ conns.log[j].ok
    /\ conns.log[i].key = conns.log[j].key
    /\ i <= conns.log[j].seen
    /\ conns.log[i].cleanedSince = conns.log[j].cleaned

\* C35: of two successive getDbConnection(config) calls with the same
\* configuration, made one after the other with no cleanup in between, the
\* second returns the connection the first returned and creates none.
C35_SuccessiveCallsShareConnection ==
    conns.on =>
        \A i, j \in DOMAIN conns.log :
            (Successive(i, j) /\ conns.log[i].alone) =>
                /\ conns.log[j].conn = conns.log[i].conn
                /\ ~conns.log[j].made

\* a call created a connection and the next call got the same one
C35_Witness ==
    /\ conns.on
    /\ \E i, j \in DOMAIN conns.log :
         /\ Successive(i, j)
         /\ conns.log[i].alone
         /\ conns.log[i].made
         /\ conns.log[j].conn = conns.log[i].conn
         /\ Len(conns.objects) = 1

\* C39: after cleanup() has closed the cached connections, the next
\* getDbConnection(config) establishes a new connection: no call returns a
\* connection object that was closed.
C39_NoClosedConnectionReturned ==
    conns.on => \A i \in DOMAIN conns.log : ~conns.log[i].closed

\* C39, as the calls behave: cleanup() empties the connections of the ORM
\* and leaves the pools of the DatabaseManager, so a call that follows a
\* cleanup() makes no connection when one was returned for its configuration
\* before the cleanup(); with the calls made one after the other it returns
\* the very object returned before, which cleanup() closed.
C39_PooledConnectionOutlivesCleanup ==
    conns.on =>
        \A i, j \in DOMAIN conns.log :
            (/\ conns.log[i].ok
             /\ conns.log[j].ok
             /\ conns.log[i].key = conns.log[j].key
             /\ i <= conns.log[j].seen
             /\ conns.log[i].cleanedSince < conns.log[j].cleaned) =>
                /\ ~conns.log[j].made
                /\ (\A k \in 1 .. j : conns.log[k].alone) =>
                      /\ conns.log[j].conn = conns.log[i].conn
                      /\ conns.log[j].closed

\* a connection was returned, cleanup() ran, and the next call for the same
\* configuration returned the closed object
C39_Witness ==
    /\ conns.on
    /\ Len(conns.log) = 2
    /\ conns.log[1].ok
    /\ conns.log[1].made
    /\ conns.log[2].ok
    /\ conns.log[2].key = conns.log[1].key
    /\ conns.log[2].cleaned = 1
    /\ conns.log[1].cleanedSince = 0
    /\ conns.log[2].closed

\* the j-th finished call began before the i-th had finished, for the same
\* configuration
Concurrent(i, j) ==
    /\ i < j
    /\ conns.log[j].seen < i
    /\ conns.log[i].ok
    /\ conns.log[j].ok
    /\ conns.log[i].key = conns.log[j].key

\* C40: of the getDbConnection(config) calls for one configuration that are
\* in flight together at most one creates a connection pool, and all of
\* them resolve to the same connection object.
C40_ConcurrentCallsShareOnePool ==
    conns.on =>
        \A i, j \in DOMAIN conns.log :
            (Concurrent(i, j)
               /\ conns.log[i].cleaned = conns.log[j].cleanedSince) =>
                /\ conns.log[i].conn = conns.log[j].conn
                /\ ~(conns.log[i].made /\ conns.log[j].made)

\* C40, as the calls behave: a call that found the configuration neither
\* cached nor pooled creates a pool of its own and resolves to it, whatever
\* other calls are in flight, so two such calls resolve to two objects; a
\* call that creates none resolves to an object made before.
C40_EachMissCreatesItsOwnPool ==
    conns.on =>
        /\ \A i \in DOMAIN conns.log :
             conns.log[i].ok =>
                 /\ conns.log[i].made => conns.log[i].conn = conns.log[i].own
                 /\ conns.log[i].conn \in DOMAIN conns.objects
                 /\ conns.objects[conns.log[i].conn].key = conns.log[i].key
        /\ \A i, j \in DOMAIN conns.log :
             (Concurrent(i, j) /\ conns.log[i].made /\ conns.log[j].made)
                 => conns.log[i].conn # conns.log[j].conn

\* two calls for one configuration were in flight together, each created a
\* pool, and they resolved to different objects
C40_Witness ==
    /\ conns.on
    /\ conns.cleanups = 0
    /\ \E i, j \in DOMAIN conns.log :
         /\ Concurrent(i, j)
         /\ conns.log[i].made
         /\ conns.log[j].made
         /\ conns.log[i].conn # conns.log[j].conn

\* ---------------------------------------------------------------------
\* Properties of migrate() when the ledger cannot be read
\* ---------------------------------------------------------------------

\* the step in which migrate() asks for the ledger rows, or for MAX(batch),
\* and the executor reports a failure
LedgerReadFails ==
    \/ pc = "idle" /\ call' = "migrate" /\ ioFail' /\ ~errorFn'
    \/ pc = "m_batch" /\ call = "migrate" /\ ~ioFail /\ ioFail'

\* while a migrate() applies units: none of them has a row, and the batch
\* is one more than the highest batch of the ledger at the call
AppliesOnlyPending ==
    (call = "migrate" /\ pc \in {"m_up", "m_insert"}) =>
        /\ \A i \in DOMAIN fr.queue :
             \A r \in before : r.migration # fr.queue[i]
        /\ fr.batch = MaxBatchOf(before) + 1
        /\ before # {} => fr.batch > 1

Returned(i) == orm.calls[i].ref # 0

\* what the caller of the i-th call reads in its result now
ReadsNow(i) == orm.objects[orm.calls[i].ref]

\* C36: every operation of the ORM returns without raising, whatever was
\* called before it, a result whose success field is the boolean true when
\* the adapter reported success, and the boolean false, with an error that
\* is defined, when the adapter reported a failure.
C36_OperationsReturnBooleanSuccess ==
    orm.on =>
        \A i \in DOMAIN orm.calls :
            /\ Returned(i)
            /\ orm.calls[i].outcome = "success"
                 => orm.calls[i].then.success = "true"
            /\ orm.calls[i].outcome # "success"
                 => /\ orm.calls[i].then.success = "false"
                    /\ orm.calls[i].then.error \notin {"", "method"}

\* C36, as the operations behave: a call returns the response object with
\* statusCode 200, the adapter's data and an empty error when the adapter
\* reported success; when it did not, the call returns statusCode 500 with
\* the error only if no operation was called before it in the process, and
\* raises a TypeError otherwise; the success field of what is returned is
\* the method in every case.
C36_OperationsReturnOrRaise ==
    orm.on =>
        \A i \in DOMAIN orm.calls :
            LET c == orm.calls[i]
            IN /\ c.outcome = "success"
                    => /\ Returned(i)
                       /\ c.then.statusCode = 200
                       /\ c.then.error = ""
                       /\ c.then.data
                            = IF c.op = "createTable" THEN "null" ELSE c.data
               /\ c.outcome # "success"
                    => /\ Returned(i) <=> i = 1
                       /\ Returned(i)
                            => /\ c.then.statusCode = 500
                               /\ c.then.data = "{}"
                               /\ c.then.error \in {"adapter error", "exception"}
               /\ Returned(i) => c.then.success = "method"

\* an operation succeeded and the next one, whose adapter reported a
\* failure, raised
C36_Witness ==
    /\ orm.on
    /\ Len(orm.calls) = 2
    /\ orm.calls[1].outcome = "success"
    /\ orm.calls[2].outcome = "failure"
    /\ ~Returned(2)

\* C38: the result one operation returned is not modified by a later
\* operation: it still carries the status, data and error it was returned
\* with, and the results of two operations are distinct objects.
C38_ResultsAreNotShared ==
    orm.on =>
        /\ \A i \in DOMAIN orm.calls :
             Returned(i) => ReadsNow(i) = orm.calls[i].then
        /\ \A i, j \in DOMAIN orm.calls :
             (i < j /\ Returned(i) /\ Returned(j))
                 => orm.calls[i].ref # orm.calls[j].ref

\* C38, as the operations behave: every result returned is the one response
\* object, so each caller reads in its result what the last operation that
\* returned has written.
C38_ResultsAreTheResponseObject ==
    orm.on =>
        \A i, j \in DOMAIN orm.calls :
            (/\ Returned(i)
             /\ Returned(j)
             /\ \A k \in DOMAIN orm.calls : Returned(k) => k <= j)
                => /\ orm.calls[i].ref = orm.calls[j].ref
                   /\ ReadsNow(i) = orm.calls[j].then

\* r1 = create(...) succeeded with the first rows, a second operation
\* succeeded with other rows, and r1 shows the second rows
C38_Witness ==
    /\ orm.on
    /\ Len(orm.calls) = 2
    /\ orm.calls[1].op = "create"
    /\ orm.calls[1].outcome = "success"
    /\ orm.calls[2].op = "create"
    /\ orm.calls[2].outcome = "success"
    /\ ReadsNow(1).data = "rows 2"
    /\ orm.calls[1].then.data = "rows 1"

====
